---- MODULE Spec2Model ----
(***************************************************************************)
(* Model of yt-history's streaming UTF-8 decoder (src/src/utf8_reader.rs)  *)
(* and of the position-tracking scanner built on it                        *)
(* (src/src/parser/html_parser.rs).                                        *)
(*                                                                         *)
(* Bytes are integers 0..255, characters are Unicode scalar values.        *)
(* Specification Spec runs Utf8Iter::next() against a byte source that a   *)
(* writer feeds and SpecFile against a whole file; SpecScan runs skip_to,  *)
(* read_until and peek over a character stream; SpecParse runs parse over  *)
(* rendered records; SpecStore folds records into the model                *)
(* (src/src/model.rs), runs the JSON parser and the cache round trip;      *)
(* SpecBytes runs the byte scanner of src/src/main.rs.                     *)
(***************************************************************************)
EXTENDS Integers, Sequences, FiniteSets, TLC

----------------------------------------------------------------------------
(* Bounds of the model *)

\* total number of bytes the writer puts into the source
MaxBytes == 3
\* BUFFER_SIZE is MAX_BYTES_UTF8_CODE_POINT * BufBlocks (1024 blocks in the code)
BufBlocks == 1
\* number of read errors the source may report
MaxIoErrors == 1
\* the count of fruitless rounds of one next() call saturates here
MaxSpin == 2

\* length of the character stream given to the scanner
MaxStream == 4
\* number of whole records in an input of parse
MaxRecords == 2
\* number of records folded into a model by insert_row
MaxFold == 3
\* number of rows in an input of the JSON parser
MaxRows == 3

\* The characters of the scanner's stream ('a', 'b', '\n', U+00A0) and the literals
\* sought in it ("ab", "aab", "\n")
ScanChars == {97, 98, 10, 160}
Literals == {<<97, 98>>, <<97, 97, 98>>, <<10>>}

\* The bytes the writer chooses from: 'a', a continuation byte, a byte that is
\* never valid, and the lead bytes of a 3- and a 4-byte sequence.
ByteAlphabet == {97, 169, 192, 226, 240}

----------------------------------------------------------------------------
(* Program constants *)

MAX_BYTES_UTF8_CODE_POINT == 4
BUFFER_SIZE == MAX_BYTES_UTF8_CODE_POINT * BufBlocks

----------------------------------------------------------------------------
(* Sequence helpers *)

Min(a, b) == IF a <= b THEN a ELSE b

Rev(s) == [i \in 1..Len(s) |-> s[Len(s) + 1 - i]]

DropFirst(s, n) == SubSeq(s, n + 1, Len(s))

Take(s, n) == SubSeq(s, 1, n)

----------------------------------------------------------------------------
(* str::from_utf8, as the standard library validates (Unicode 15, table    *)
(* 3-7): the result carries valid_up_to and error_len (0 stands for None). *)

UTF8_CHAR_WIDTH(b) ==
  IF b < 128 THEN 1
  ELSE IF b < 194 THEN 0
  ELSE IF b < 224 THEN 2
  ELSE IF b < 240 THEN 3
  ELSE IF b < 245 THEN 4
  ELSE 0

IsCont(b) == b >= 128 /\ b <= 191

\* the second byte a 3-byte lead accepts
Second3(first, b) ==
  \/ first = 224 /\ b >= 160 /\ b <= 191
  \/ first >= 225 /\ first <= 236 /\ IsCont(b)
  \/ first = 237 /\ b >= 128 /\ b <= 159
  \/ first >= 238 /\ first <= 239 /\ IsCont(b)

\* the second byte a 4-byte lead accepts
Second4(first, b) ==
  \/ first = 240 /\ b >= 144 /\ b <= 191
  \/ first >= 241 /\ first <= 243 /\ IsCont(b)
  \/ first = 244 /\ b >= 128 /\ b <= 143

Utf8Ok(n) == [ok |-> TRUE, valid_up_to |-> n, error_len |-> 0]

Utf8Error(n, l) == [ok |-> FALSE, valid_up_to |-> n, error_len |-> l]

RECURSIVE run_utf8_validation(_, _)
run_utf8_validation(s, i) ==
  IF i > Len(s) THEN Utf8Ok(Len(s))
  ELSE
    LET first == s[i]
        w == UTF8_CHAR_WIDTH(first)
        has(k) == i + k <= Len(s)
    IN  IF w = 1 THEN run_utf8_validation(s, i + 1)
        ELSE IF w = 2 THEN
          IF ~has(1) THEN Utf8Error(i - 1, 0)
          ELSE IF ~IsCont(s[i + 1]) THEN Utf8Error(i - 1, 1)
          ELSE run_utf8_validation(s, i + 2)
        ELSE IF w = 3 THEN
          IF ~has(1) THEN Utf8Error(i - 1, 0)
          ELSE IF ~Second3(first, s[i + 1]) THEN Utf8Error(i - 1, 1)
          ELSE IF ~has(2) THEN Utf8Error(i - 1, 0)
          ELSE IF ~IsCont(s[i + 2]) THEN Utf8Error(i - 1, 2)
          ELSE run_utf8_validation(s, i + 3)
        ELSE IF w = 4 THEN
          IF ~has(1) THEN Utf8Error(i - 1, 0)
          ELSE IF ~Second4(first, s[i + 1]) THEN Utf8Error(i - 1, 1)
          ELSE IF ~has(2) THEN Utf8Error(i - 1, 0)
          ELSE IF ~IsCont(s[i + 2]) THEN Utf8Error(i - 1, 2)
          ELSE IF ~has(3) THEN Utf8Error(i - 1, 0)
          ELSE IF ~IsCont(s[i + 3]) THEN Utf8Error(i - 1, 3)
          ELSE run_utf8_validation(s, i + 4)
        ELSE Utf8Error(i - 1, 1)

from_utf8(s) == run_utf8_validation(s, 1)

\* s.chars() of a validated string: its scalar values in order
RECURSIVE StrChars(_)
StrChars(s) ==
  IF s = <<>> THEN <<>>
  ELSE
    LET w == UTF8_CHAR_WIDTH(s[1])
        c == IF w = 1 THEN s[1]
             ELSE IF w = 2 THEN (s[1] % 32) * 64 + (s[2] % 64)
             ELSE IF w = 3 THEN (s[1] % 16) * 4096 + (s[2] % 64) * 64 + (s[3] % 64)
             ELSE (s[1] % 8) * 262144 + (s[2] % 64) * 4096 + (s[3] % 64) * 64 + (s[4] % 64)
    IN  <<c>> \o StrChars(DropFirst(s, w))

----------------------------------------------------------------------------
(* State *)

VARIABLES
  \* the byte source: every byte the writer has put in, whether it has
  \* reached its permanent end, how many bytes read() has handed out, and how
  \* many read errors it has reported
  written, closed, rpos, ioErrs,
  \* Utf8Iter
  bytes_read, buf, chars, buf_len,
  \* position of the running next() call: "idle" between calls, "read" at
  \* the top of its loop
  pc,
  \* what the last finished next() call returned
  ret,
  \* history: the Ok / InvalidBytes outcomes returned so far, the result of
  \* the last reader.read() (-2 before the first, -1 for Err), the reads of
  \* the running call that returned 0 at the permanent end of the source and
  \* left the call in its loop (saturating at MaxSpin),
  \* the mark (outcomes returned, bytes handed out) of the first End, and
  \* whether a read that returned bytes has left next() in its loop on a
  \* partial code point
  out, lastRead, spins, endFirst, split

srcVars == <<written, closed, rpos, ioErrs>>
iterVars == <<bytes_read, buf, chars, buf_len>>
histVars == <<out, lastRead, spins, endFirst, split>>
decVars == <<srcVars, iterVars, pc, ret, histVars>>

VARIABLES
  \* the character stream the scanner reads (the outcomes of Utf8Iter::next()
  \* in order; after the last one it returns End), the number of items the
  \* Peekable has pulled from it, and the Peekable's peek slot: <<>> when
  \* empty, else one Option<item> (<<>> for None, <<item>> for Some)
  stream, spos, peeked,
  \* history: the records that the stream of parse was written from
  records,
  \* ModelsParser
  line, column, chars_read, models,
  \* the running scanner call ("idle" between calls), its argument s (the
  \* literal sought) and its locals
  spc, literal, found, found_location, closest, closest_location, read,
  \* what the last finished scanner call returned
  sres,
  \* history: the number of items taken when the running or last call began
  start,
  \* parse: the statement of next_data_row that runs ("idle" outside parse,
  \* "done" once parse returned), whether this is the first next_data_row
  \* of parse, the local row, and what parse returned
  gpc, first, row, pres

VARIABLES
  \* history: the records folded into models by insert_row or by the JSON
  \* parser, in order
  folded,
  \* json_parser::parse: the deserialised rows, the statement that runs
  \* ("idle" before the call, "loop" inside the for loop, "done" once parse
  \* returned), the index of the row the loop is at, and what parse returned
  jrows, jpc, ji, jres,
  \* the cache file: <<>> when not written, else the ScalarModels that
  \* Models::to_string serialised; and what Models::from_str made of it
  cache, loaded

VARIABLES
  \* the byte scanner of main.rs: the running call ("idle" between calls,
  \* "panic" once a call panicked), its argument string, its locals i,
  \* result and starting_byte_index, and what the last finished call
  \* returned
  mpc, string, bi, result, starting_byte_index, mres

parserVars == <<line, column, chars_read>>
localVars == <<found, found_location, closest, closest_location>>
rowVars == <<gpc, first, row, models, pres>>
scanVars == <<stream, records, spos, peeked, parserVars, spc, literal, localVars, read,
              sres, start, rowVars>>

storeVars == <<folded, jrows, jpc, ji, jres, cache, loaded>>

byteVars == <<mpc, string, bi, result, starting_byte_index, mres>>

vars == <<decVars, scanVars, storeVars, byteVars>>

----------------------------------------------------------------------------
(* Decode outcomes: Result<char, Error> *)

Ok(c) == [k |-> "Ok", c |-> c, bytes |-> <<>>]
InvalidBytes(b) == [k |-> "InvalidBytes", c |-> 0, bytes |-> b]
IoError == [k |-> "IoError", c |-> 0, bytes |-> <<>>]
End == [k |-> "End", c |-> 0, bytes |-> <<>>]
NoRet == [k |-> "None", c |-> 0, bytes |-> <<>>]
\* the loop goes round again
Continue == [k |-> "Continue", c |-> 0, bytes |-> <<>>]

NoMark == [n |-> -1, r |-> -1]

----------------------------------------------------------------------------
(* Scanner values *)

\* struct Location
Location(ch, co, li) == [chars |-> ch, columns |-> co, lines |-> li]

\* Location::default()
DefaultLocation == Location(0, 0, 0)

\* Result<_, ParseError> of a scanner call op; closest is an Option: <<>>
\* for None, one pair <<closest, location>> for Some. val is the value of an
\* Ok: the string of read_until, the character of peek in a sequence.
Result(op, k, expected, cl, location, bytes) ==
  [op |-> op, k |-> k, expected |-> expected, closest |-> cl,
   location |-> location, bytes |-> bytes, val |-> <<>>]

\* Ok(v) returned by the scanner call op
OkVal(op, v) ==
  [Result(op, "Ok", <<>>, <<>>, DefaultLocation, <<>>) EXCEPT !.val = v]

\* "1 more character" and "any character", the expected of an
\* UnterminatedInput that names no literal
ONE_MORE_CHARACTER ==
  <<49, 32, 109, 111, 114, 101, 32, 99, 104, 97, 114, 97, 99, 116, 101, 114>>
ANY_CHARACTER == <<97, 110, 121, 32, 99, 104, 97, 114, 97, 99, 116, 101, 114>>

NoResult == Result("none", "None", <<>>, <<>>, DefaultLocation, <<>>)

----------------------------------------------------------------------------
(* Utf8Iter, as operators on the record d of its fields *)

Iter(br, b, cs, bl) == [bytes_read |-> br, buf |-> b, chars |-> cs, buf_len |-> bl]

\* Utf8Iter::new
NewIter == Iter(0, [i \in 1..BUFFER_SIZE |-> 0], <<>>, 0)

\* self.buf.copy_within(k.., 0)
copy_within(b, k) ==
  [i \in 1..BUFFER_SIZE |-> IF i + k <= BUFFER_SIZE THEN b[i + k] ELSE b[i]]

\* self.buf[..self.buf_len]
Live(d) == SubSeq(d.buf, 1, d.buf_len)

\* the bytes s (a valid string at the front of the buffer) are moved out:
\* their characters are queued in reverse, the buffer is shifted, and the
\* first of them is popped and returned
MoveOut(d, s) ==
  LET queued == d.chars \o Rev(StrChars(s))
      bytes_consumed == Len(s)
  IN  [d |-> Iter(d.bytes_read, copy_within(d.buf, bytes_consumed),
                  Take(queued, Len(queued) - 1), d.buf_len - bytes_consumed),
       ret |-> Ok(queued[Len(queued)])]

\* RemoveInvalid with the invalid bytes returned and left in the buffer
RemoveInvalidKeep(d, n) ==
  [d |-> d, ret |-> InvalidBytes(SubSeq(d.buf, 1, n))]

\* RemoveInvalid with the whole buffer dropped, not only the invalid span
RemoveInvalidAll(d, n) ==
  [d |-> Iter(d.bytes_read, copy_within(d.buf, d.buf_len), d.chars, 0),
   ret |-> InvalidBytes(SubSeq(d.buf, 1, n))]

\* the first n bytes of the buffer are invalid: remove and return them
RemoveInvalid(d, n) ==
  [d |-> Iter(d.bytes_read, copy_within(d.buf, n), d.chars, d.buf_len - n),
   ret |-> InvalidBytes(SubSeq(d.buf, 1, n))]

\* Decode with a partial code point reported as invalid at once
DecodeEager(d) ==
  LET e == from_utf8(Live(d))
  IN  IF e.ok THEN MoveOut(d, Live(d))
      ELSE IF e.valid_up_to > 0 THEN MoveOut(d, SubSeq(d.buf, 1, e.valid_up_to))
      ELSE IF e.error_len > 0 THEN RemoveInvalid(d, e.error_len)
      ELSE RemoveInvalid(d, d.buf_len)

\* the match on str::from_utf8(&self.buf[..self.buf_len])
Decode(d) ==
  LET e == from_utf8(Live(d))
  IN  IF e.ok THEN MoveOut(d, Live(d))
      ELSE IF e.valid_up_to > 0 THEN MoveOut(d, SubSeq(d.buf, 1, e.valid_up_to))
      ELSE IF e.error_len > 0 THEN RemoveInvalid(d, e.error_len)
      ELSE [d |-> d, ret |-> Continue]

\* Ok(n) of reader.read(), n > 0, the bytes being chunk
Fill(d, chunk) ==
  LET n == Len(chunk)
  IN  Iter(d.bytes_read + n,
           [i \in 1..BUFFER_SIZE |->
              IF i > d.buf_len /\ i <= d.buf_len + n THEN chunk[i - d.buf_len]
              ELSE d.buf[i]],
           d.chars, d.buf_len + n)

\* LoopRound with End latched: once End was returned, it is returned again
\* whatever was read
LoopRoundLatched(d, chunk) ==
  IF ret = End THEN [d |-> d, ret |-> End]
  ELSE IF chunk = <<>>
    THEN IF d.buf_len = 0 THEN [d |-> d, ret |-> End] ELSE Decode(d)
    ELSE Decode(Fill(d, chunk))

\* LoopRound with End returned on every read of 0 bytes
LoopRoundEarlyEnd(d, chunk) ==
  IF chunk = <<>> THEN [d |-> d, ret |-> End] ELSE Decode(Fill(d, chunk))

\* one round of the loop of next() after a read that returned Ok(n), the
\* bytes being chunk (empty for Ok(0))
LoopRound(d, chunk) ==
  IF chunk = <<>>
    THEN IF d.buf_len = 0 THEN [d |-> d, ret |-> End] ELSE Decode(d)
    ELSE Decode(Fill(d, chunk))

----------------------------------------------------------------------------
(* The byte source *)

\* bytes written and not yet read
Pending == DropFirst(written, rpos)

\* the room of the slice buf[buf_len..] handed to read()
Room == BUFFER_SIZE - buf_len

Self == Iter(bytes_read, buf, chars, buf_len)

----------------------------------------------------------------------------
(* Initial state *)

\* a new Utf8Iter on a source nothing was written to
DecInit ==
  /\ written = <<>> /\ closed = FALSE /\ rpos = 0 /\ ioErrs = 0
  /\ bytes_read = NewIter.bytes_read /\ buf = NewIter.buf
  /\ chars = NewIter.chars /\ buf_len = NewIter.buf_len
  /\ pc = "idle" /\ ret = NoRet
  /\ out = <<>> /\ lastRead = -2 /\ spins = 0
  /\ endFirst = NoMark /\ split = FALSE

\* a new ModelsParser and no scanner call
\* DataRow::default()
DefaultRow ==
  [url |-> <<>>, title |-> <<>>, channel_name |-> <<>>, channel_url |-> <<>>,
   date |-> <<>>]

\* Models::new()
NewModels == [channels |-> {}, videos |-> {}, watches |-> <<>>]

\* parse has not returned
NoParseResult == [k |-> "None", e |-> NoResult]

\* Result<_> of a call of the byte scanner of main.rs: Ok with a value,
\* ParseError::UnterminatedInput { expected, position }, an io::Error, or
\* the panic of the call
ByteResult(op, k, expected, position, val) ==
  [op |-> op, k |-> k, expected |-> expected, position |-> position, val |-> val]

ScanInit ==
  /\ spos = 0 /\ peeked = <<>>
  /\ line = 0 /\ column = 0 /\ chars_read = 0
  /\ models = NewModels
  /\ spc = "idle" /\ literal = <<>>
  /\ found = <<>> /\ found_location = DefaultLocation
  /\ closest = <<>> /\ closest_location = DefaultLocation
  /\ read = <<>>
  /\ sres = NoResult
  /\ start = 0
  /\ gpc = "idle" /\ first = TRUE /\ row = DefaultRow /\ pres = NoParseResult
  /\ folded = <<>>
  /\ jrows = <<>> /\ jpc = "idle" /\ ji = 1 /\ jres = [k |-> "None", models |-> <<>>]
  /\ cache = <<>> /\ loaded = <<>>
  /\ mpc = "idle" /\ string = <<>> /\ bi = 0 /\ result = <<>>
  /\ starting_byte_index = 0 /\ mres = ByteResult("none", "None", <<>>, 0, <<>>)

Init == DecInit /\ ScanInit /\ stream = <<>> /\ records = <<>>

----------------------------------------------------------------------------
(* The writer's side of the source *)

\* the writer appends one byte
Write ==
  /\ ~closed /\ Len(written) < MaxBytes
  /\ \E b \in ByteAlphabet : written' = Append(written, b)
  /\ UNCHANGED <<closed, rpos, ioErrs, iterVars, pc, ret, histVars, scanVars, storeVars, byteVars>>

\* the source reaches its permanent end: every later read returns 0 once
\* the pending bytes are read
Close ==
  /\ ~closed
  /\ closed' = TRUE
  /\ UNCHANGED <<written, rpos, ioErrs, iterVars, pc, ret, histVars, scanVars, storeVars, byteVars>>

----------------------------------------------------------------------------
(* Utf8Iter::next *)

\* next() returns r with the fields d
Return(d, r) ==
  /\ bytes_read' = d.bytes_read /\ buf' = d.buf
  /\ chars' = d.chars /\ buf_len' = d.buf_len
  /\ pc' = "idle" /\ ret' = r /\ spins' = 0
  /\ out' = IF r.k \in {"Ok", "InvalidBytes"} THEN Append(out, r) ELSE out
  /\ endFirst' = IF r.k = "End" /\ endFirst = NoMark
                    THEN [n |-> Len(out), r |-> rpos'] ELSE endFirst
  /\ UNCHANGED split

\* Call with the loop entered even when characters are queued
CallReadFirst ==
  /\ pc = "idle"
  /\ UNCHANGED <<srcVars, scanVars, storeVars, byteVars>>
  /\ pc' = "read" /\ spins' = 0
  /\ UNCHANGED <<iterVars, ret, out, lastRead, endFirst, split>>

\* the call: a queued character is popped and returned, or the loop is entered
Call ==
  /\ pc = "idle"
  /\ UNCHANGED <<srcVars, scanVars, storeVars, byteVars>>
  /\ IF chars # <<>>
       THEN /\ Return(Iter(bytes_read, buf, Take(chars, Len(chars) - 1), buf_len),
                      Ok(chars[Len(chars)]))
            /\ UNCHANGED lastRead
       ELSE /\ pc' = "read" /\ spins' = 0
            /\ UNCHANGED <<iterVars, ret, out, lastRead, endFirst, split>>

\* the effect of one round of the loop
Round(chunk) ==
  LET r == LoopRound(Self, chunk)
  IN  IF r.ret.k = "Continue"
        THEN /\ bytes_read' = r.d.bytes_read /\ buf' = r.d.buf
             /\ chars' = r.d.chars /\ buf_len' = r.d.buf_len
             /\ spins' = IF chunk = <<>> /\ closed /\ Pending = <<>>
                          THEN Min(spins + 1, MaxSpin) ELSE spins
             /\ split' = (split \/ chunk # <<>>)
             /\ UNCHANGED <<pc, ret, out, endFirst>>
        ELSE Return(r.d, r.ret)

\* reader.read() returns Ok(0): the source has nothing, or the slice is empty
ReadZero ==
  /\ pc = "read"
  /\ Pending = <<>> \/ Room = 0
  /\ UNCHANGED <<srcVars, scanVars, storeVars, byteVars>>
  /\ lastRead' = 0
  /\ Round(<<>>)

\* reader.read() returns Ok(n), n > 0: any part of what is pending that fits
ReadSome ==
  /\ pc = "read"
  /\ \E n \in 1..Min(Len(Pending), Room) :
       /\ rpos' = rpos + n
       /\ lastRead' = n
       /\ Round(Take(Pending, n))
  /\ UNCHANGED <<written, closed, ioErrs, scanVars, storeVars, byteVars>>

\* ReadErr with the buffered bytes discarded
ReadErrDiscard ==
  /\ pc = "read"
  /\ ioErrs < MaxIoErrors
  /\ ioErrs' = ioErrs + 1
  /\ lastRead' = -1
  /\ UNCHANGED <<written, closed, rpos, scanVars, storeVars, byteVars>>
  /\ Return(Iter(bytes_read, buf, chars, 0), IoError)

\* reader.read() returns Err(e)
ReadErr ==
  /\ pc = "read"
  /\ ioErrs < MaxIoErrors
  /\ ioErrs' = ioErrs + 1
  /\ lastRead' = -1
  /\ UNCHANGED <<written, closed, rpos, scanVars, storeVars, byteVars>>
  /\ Return(Self, IoError)

Next == Write \/ Close \/ Call \/ ReadZero \/ ReadSome \/ ReadErr

Spec == Init /\ [][Next]_vars

----------------------------------------------------------------------------
(* Utf8Iter::next on a source that holds a whole file *)

\* the files: up to one byte more than the buffer holds, a run of one byte
\* followed by a run of another, the bytes being 'a', a byte that is never
\* valid and the lead byte of a 3-byte sequence
Files ==
  {[i \in 1..n |-> IF i <= k THEN b1 ELSE b2] :
     n \in 0..(BUFFER_SIZE + 1), k \in 0..(BUFFER_SIZE + 1),
     b1 \in {97, 192, 226}, b2 \in {97, 192, 226}}

\* a new Utf8Iter on a file
InitFile ==
  /\ written \in Files /\ closed = TRUE /\ rpos = 0 /\ ioErrs = 0
  /\ bytes_read = NewIter.bytes_read /\ buf = NewIter.buf
  /\ chars = NewIter.chars /\ buf_len = NewIter.buf_len
  /\ pc = "idle" /\ ret = NoRet
  /\ out = <<>> /\ lastRead = -2 /\ spins = 0
  /\ endFirst = NoMark /\ split = FALSE
  /\ ScanInit /\ stream = <<>> /\ records = <<>>

NextFile == Call \/ ReadZero \/ ReadSome \/ ReadErr

SpecFile == InitFile /\ [][NextFile]_vars

----------------------------------------------------------------------------
(* The character stream of the scanner: Peekable<Enumerate<Utf8Iter<R>>> *)

\* what Utf8Iter::next() returns at the scanner's position in the stream:
\* the next outcome, and End once the stream is used up
DecoderNext == IF spos < Len(stream) THEN stream[spos + 1] ELSE End

\* Iterator::next with End passed on as an item
StreamNextEnd == <<DecoderNext>>

\* Iterator::next for Utf8Iter: <<>> for None (End), else the item in a
\* one-element sequence
StreamNext == IF DecoderNext = End THEN <<>> ELSE <<DecoderNext>>

\* what the iterator over Utf8Iter yields: Some(Ok(char)) and
\* Some(Err(InvalidBytes | IoError))
ScanItems == {Ok(c) : c \in ScanChars} \cup {InvalidBytes(<<192>>), IoError}

\* the streams of the model: up to MaxStream items, at most one of them a
\* decoder error
ScanStreams ==
  {st \in UNION {[1..n -> ScanItems] : n \in 0..MaxStream} :
     \A i, j \in 1..Len(st) : (st[i].k # "Ok" /\ st[j].k # "Ok") => i = j}

\* Peekable::next(): the item held by the peek slot if there is one, else
\* the next item of the iterator
PeekableNext == IF peeked # <<>> THEN peeked[1] ELSE StreamNext

\* the state of the Peekable after next() or peek() left slot in its peek
\* slot: an item is pulled from the iterator only when the slot was empty
Pulled(slot) ==
  /\ peeked' = slot
  /\ spos' = IF peeked = <<>> /\ StreamNext # <<>> THEN spos + 1 ELSE spos

\* the number of items the scanner has taken from the Peekable: an item held
\* in the peek slot is pulled from the iterator but not taken yet
Consumed == spos - (IF peeked # <<>> /\ peeked[1] # <<>> THEN 1 ELSE 0)

----------------------------------------------------------------------------
(* ModelsParser: the scanner *)

\* char::is_whitespace: the characters with the White_Space property
is_whitespace(c) ==
  c \in (9..13) \cup {32, 133, 160, 5760} \cup (8192..8202)
          \cup {8232, 8233, 8239, 8287, 12288}

RECURSIVE PushChars(_, _, _)
\* the loop of push_collapse_whitespace over the characters of s
PushChars(target, s, last_whitespace) ==
  IF s = <<>> THEN target
  ELSE LET c == Head(s)
       IN  IF is_whitespace(c)
             THEN PushChars(IF ~last_whitespace THEN Append(target, 32) ELSE target,
                            Tail(s), TRUE)
             ELSE PushChars(Append(target, c), Tail(s), FALSE)

\* push_collapse_whitespace with each whitespace character pushed as a space
PushEachSpace(target, s) ==
  target \o [i \in 1..Len(s) |-> IF is_whitespace(s[i]) THEN 32 ELSE s[i]]

\* push_collapse_whitespace(target, s): target after the call
push_collapse_whitespace(target, s) ==
  PushChars(target, s,
            IF target = <<>> THEN FALSE ELSE is_whitespace(target[Len(target)]))

\* self.location()
SelfLocation == Location(chars_read, column + 1, line + 1)

\* from_utf8_error giving Location::default() for the location
from_utf8_error_nowhere(op, e, location) ==
  IF e.k = "InvalidBytes"
    THEN Result(op, "InvalidUtf8", <<>>, <<>>, DefaultLocation, e.bytes)
  ELSE IF e.k = "IoError"
    THEN Result(op, "IoError", <<>>, <<>>, DefaultLocation, <<>>)
  ELSE Result(op, "UnterminatedInput", ONE_MORE_CHARACTER, <<>>,
              DefaultLocation, <<>>)

\* ParseError::from_utf8_error(e, location) as the result of call op
from_utf8_error(op, e, location) ==
  IF e.k = "InvalidBytes"
    THEN Result(op, "InvalidUtf8", <<>>, <<>>, location, e.bytes)
  ELSE IF e.k = "IoError"
    THEN Result(op, "IoError", <<>>, <<>>, location, <<>>)
  ELSE Result(op, "UnterminatedInput", ONE_MORE_CHARACTER, <<>>,
              DefaultLocation, <<>>)

\* ParseError::UnterminatedInput { expected: s, closest } after the loop
Unterminated(op, lit, cl, cl_loc) ==
  Result(op, "UnterminatedInput", lit,
         IF cl = <<>> THEN <<>> ELSE << <<cl, cl_loc>> >>,
         DefaultLocation, <<>>)

Locals(f, fl, cl, cll) ==
  [found |-> f, found_location |-> fl, closest |-> cl, closest_location |-> cll]

\* the locals at the start of skip_to and read_until
NewLocals == Locals(<<>>, DefaultLocation, <<>>, DefaultLocation)

\* the counters with the column kept going over a line feed
CountedNoReset(char) ==
  [chars_read |-> chars_read + 1,
   line |-> IF char = 10 THEN line + 1 ELSE line,
   column |-> column + 1]

\* the counters after char was taken from the stream
Counted(char) ==
  [chars_read |-> chars_read + 1,
   line |-> IF char = 10 THEN line + 1 ELSE line,
   column |-> IF char = 10 THEN 0 ELSE column + 1]

\* SkipToBody that goes on with the loop when found has become s
SkipToBodyOn(l, lit, char, here) ==
  IF Len(l.found) >= Len(lit) THEN [l |-> l, k |-> "Panic"]
  ELSE
    LET want == lit[Len(l.found) + 1]
    IN  IF want = char
          THEN LET fl == IF Len(l.found) = 0 THEN here ELSE l.found_location
                   f == Append(l.found, char)
               IN  [l |-> Locals(f, fl, l.closest, l.closest_location),
                    k |-> "Loop"]
          ELSE IF Len(l.found) > 0
            THEN LET f == Append(l.found, char)
                     longer == Len(f) > Len(l.closest)
                 IN  [l |-> Locals(<<>>, l.found_location,
                                   IF longer THEN f ELSE l.closest,
                                   IF longer THEN l.found_location
                                             ELSE l.closest_location),
                      k |-> "Loop"]
            ELSE [l |-> Locals(<<>>, l.found_location, l.closest, l.closest_location),
                  k |-> "Loop"]

\* SkipToBody with found_location set again on every matching character
SkipToBodyPerChar(l, lit, char, here) ==
  IF Len(l.found) >= Len(lit) THEN [l |-> l, k |-> "Panic"]
  ELSE
    LET want == lit[Len(l.found) + 1]
    IN  IF want = char
          THEN LET f == Append(l.found, char)
               IN  [l |-> Locals(f, here, l.closest, l.closest_location),
                    k |-> IF f = lit THEN "Ok" ELSE "Loop"]
          ELSE IF Len(l.found) > 0
            THEN LET f == Append(l.found, char)
                     longer == Len(f) > Len(l.closest)
                 IN  [l |-> Locals(<<>>, l.found_location,
                                   IF longer THEN f ELSE l.closest,
                                   IF longer THEN l.found_location
                                             ELSE l.closest_location),
                      k |-> "Loop"]
            ELSE [l |-> Locals(<<>>, l.found_location, l.closest, l.closest_location),
                  k |-> "Loop"]

\* SkipToBody with found kept, not cleared, when char does not match
SkipToBodyKeep(l, lit, char, here) ==
  IF Len(l.found) >= Len(lit) THEN [l |-> l, k |-> "Panic"]
  ELSE
    LET want == lit[Len(l.found) + 1]
    IN  IF want = char
          THEN LET fl == IF Len(l.found) = 0 THEN here ELSE l.found_location
                   f == Append(l.found, char)
               IN  [l |-> Locals(f, fl, l.closest, l.closest_location),
                    k |-> IF f = lit THEN "Ok" ELSE "Loop"]
          ELSE [l |-> l, k |-> "Loop"]

\* SkipToBody with closest replaced by a candidate of the same length too
SkipToBodyLatest(l, lit, char, here) ==
  IF Len(l.found) >= Len(lit) THEN [l |-> l, k |-> "Panic"]
  ELSE
    LET want == lit[Len(l.found) + 1]
    IN  IF want = char
          THEN LET fl == IF Len(l.found) = 0 THEN here ELSE l.found_location
                   f == Append(l.found, char)
               IN  [l |-> Locals(f, fl, l.closest, l.closest_location),
                    k |-> IF f = lit THEN "Ok" ELSE "Loop"]
          ELSE IF Len(l.found) > 0
            THEN LET f == Append(l.found, char)
                     longer == Len(f) >= Len(l.closest)
                 IN  [l |-> Locals(<<>>, l.found_location,
                                   IF longer THEN f ELSE l.closest,
                                   IF longer THEN l.found_location
                                             ELSE l.closest_location),
                      k |-> "Loop"]
            ELSE [l |-> Locals(<<>>, l.found_location, l.closest, l.closest_location),
                  k |-> "Loop"]

\* the body of the loop of skip_to once char is counted: l are the locals,
\* lit the literal s, here the Location built from the counters. k is "Ok"
\* when the call returns Ok(()), "Panic" on the desync panic, else "Loop".
SkipToBody(l, lit, char, here) ==
  IF Len(l.found) >= Len(lit) THEN [l |-> l, k |-> "Panic"]
  ELSE
    LET want == lit[Len(l.found) + 1]
    IN  IF want = char
          THEN LET fl == IF Len(l.found) = 0 THEN here ELSE l.found_location
                   f == Append(l.found, char)
               IN  [l |-> Locals(f, fl, l.closest, l.closest_location),
                    k |-> IF f = lit THEN "Ok" ELSE "Loop"]
          ELSE IF Len(l.found) > 0
            THEN LET f == Append(l.found, char)
                     longer == Len(f) > Len(l.closest)
                 IN  [l |-> Locals(<<>>, l.found_location,
                                   IF longer THEN f ELSE l.closest,
                                   IF longer THEN l.found_location
                                             ELSE l.closest_location),
                      k |-> "Loop"]
            ELSE [l |-> Locals(<<>>, l.found_location, l.closest, l.closest_location),
                  k |-> "Loop"]

\* ReadUntilBody that never records a failed partial match as closest
ReadUntilBodyNoClosest(l, rd, lit, char, here) ==
  LET r == SkipToBody(l, lit, char, here)
  IN  [l |-> Locals(r.l.found, r.l.found_location, l.closest, l.closest_location),
       read |-> rd, k |-> r.k]

\* ReadUntilBody with the characters of a failed partial match left out of
\* read
ReadUntilBodyDrop(l, rd, lit, char, here) ==
  LET r == SkipToBody(l, lit, char, here)
  IN  [l |-> r.l, k |-> r.k,
       read |-> IF r.k = "Loop" /\ Len(l.found) < Len(lit)
                   /\ lit[Len(l.found) + 1] # char
                  THEN push_collapse_whitespace(rd, <<char>>)
                  ELSE rd]

\* the body of the loop of read_until once char is counted: as SkipToBody,
\* with rd the string read so far
ReadUntilBody(l, rd, lit, char, here) ==
  IF Len(l.found) >= Len(lit) THEN [l |-> l, read |-> rd, k |-> "Panic"]
  ELSE
    LET want == lit[Len(l.found) + 1]
    IN  IF want = char
          THEN LET fl == IF Len(l.found) = 0 THEN here ELSE l.found_location
                   f == Append(l.found, char)
               IN  [l |-> Locals(f, fl, l.closest, l.closest_location),
                    read |-> rd,
                    k |-> IF f = lit THEN "Ok" ELSE "Loop"]
          ELSE IF Len(l.found) > 0
            THEN LET f == Append(l.found, char)
                     longer == Len(f) > Len(l.closest)
                 IN  [l |-> Locals(<<>>, l.found_location,
                                   IF longer THEN f ELSE l.closest,
                                   IF longer THEN l.found_location
                                             ELSE l.closest_location),
                      read |-> push_collapse_whitespace(rd, f),
                      k |-> "Loop"]
            ELSE [l |-> Locals(<<>>, l.found_location, l.closest, l.closest_location),
                  read |-> push_collapse_whitespace(rd, <<char>>),
                  k |-> "Loop"]

\* the counters once the items 1..p of the stream are taken, p being a
\* character
CountersAt(p) ==
  LET n == Cardinality({i \in 1..p : stream[i].k = "Ok"})
      feeds == {i \in 1..p : stream[i].k = "Ok" /\ stream[i].c = 10}
      last == IF feeds = {} THEN 0 ELSE CHOOSE i \in feeds : \A j \in feeds : j <= i
  IN  [chars_read |-> n, line |-> Cardinality(feeds),
       column |-> Cardinality({i \in (last + 1)..p : stream[i].k = "Ok"})]

\* the whole of skip_to(chars, lit) when the next item of chars is the item
\* p of the stream and the locals are l: what it returns (k and the fields
\* of UnterminatedInput) and the number at of items taken when it returns
RECURSIVE RunSkipTo(_, _, _)
RunSkipTo(l, p, lit) ==
  IF p > Len(stream)
    THEN LET u == Unterminated("skip_to", lit, l.closest, l.closest_location)
         IN  [k |-> u.k, at |-> p - 1, expected |-> u.expected, closest |-> u.closest]
  ELSE IF stream[p].k # "Ok"
    THEN [k |-> from_utf8_error("skip_to", stream[p], DefaultLocation).k,
          at |-> p, expected |-> <<>>, closest |-> <<>>]
  ELSE LET n == CountersAt(p)
           r == SkipToBody(l, lit, stream[p].c,
                           Location(n.chars_read, n.column, n.line))
       IN  IF r.k = "Loop" THEN RunSkipTo(r.l, p + 1, lit)
           ELSE [k |-> r.k, at |-> p, expected |-> <<>>, closest |-> <<>>]

\* the whole of read_until(chars, lit), likewise, rd being read
RECURSIVE RunReadUntil(_, _, _, _)
RunReadUntil(l, rd, p, lit) ==
  IF p > Len(stream)
    THEN LET u == Unterminated("read_until", lit, l.closest, l.closest_location)
         IN  [k |-> u.k, at |-> p - 1, expected |-> u.expected, closest |-> u.closest]
  ELSE IF stream[p].k # "Ok"
    THEN [k |-> from_utf8_error("read_until", stream[p], DefaultLocation).k,
          at |-> p, expected |-> <<>>, closest |-> <<>>]
  ELSE LET n == CountersAt(p)
           r == ReadUntilBody(l, rd, lit, stream[p].c,
                              Location(n.chars_read, n.column, n.line))
       IN  IF r.k = "Loop" THEN RunReadUntil(r.l, r.read, p + 1, lit)
           ELSE [k |-> r.k, at |-> p, expected |-> <<>>, closest |-> <<>>]

SelfLocals == Locals(found, found_location, closest, closest_location)

SetLocals(l) ==
  /\ found' = l.found /\ found_location' = l.found_location
  /\ closest' = l.closest /\ closest_location' = l.closest_location

\* scanner call op starts with the literal lit
ScanCall(op, lit) ==
  /\ spc' = op /\ literal' = lit
  /\ SetLocals(NewLocals) /\ read' = <<>>
  /\ start' = Consumed

\* the running scanner call returns r; its locals are gone
ScanReturn(r) ==
  /\ spc' = "idle" /\ sres' = r
  /\ SetLocals(NewLocals) /\ read' = <<>>

\* the counters become those of the record n
SetCounters(n) ==
  chars_read' = n.chars_read /\ line' = n.line /\ column' = n.column

\* skip_to(chars, lit) is called
CallSkipTo ==
  /\ spc = "idle" /\ gpc = "idle"
  /\ \E lit \in Literals : ScanCall("skip_to", lit)
  /\ UNCHANGED <<stream, records, spos, peeked, parserVars, sres, rowVars, decVars, storeVars, byteVars>>

\* an iteration of the loop of skip_to on a character
SkipToChar ==
  /\ spc = "skip_to"
  /\ PeekableNext # <<>> /\ PeekableNext[1].k = "Ok"
  /\ LET char == PeekableNext[1].c
         n == Counted(char)
         r == SkipToBody(SelfLocals, literal, char,
                         Location(n.chars_read, n.column, n.line))
     IN  /\ Pulled(<<>>)
         /\ SetCounters(n)
         /\ IF r.k = "Loop"
              THEN SetLocals(r.l) /\ UNCHANGED <<spc, sres, read>>
              ELSE ScanReturn(Result("skip_to", r.k, <<>>, <<>>, DefaultLocation, <<>>))
  /\ UNCHANGED <<stream, records, literal, start, rowVars, decVars, storeVars, byteVars>>

\* SkipToErr with the decoder error left in the stream
SkipToErrStuck ==
  /\ spc = "skip_to"
  /\ PeekableNext # <<>> /\ PeekableNext[1].k # "Ok"
  /\ ScanReturn(from_utf8_error("skip_to", PeekableNext[1], SelfLocation))
  /\ UNCHANGED <<stream, records, spos, peeked, parserVars, literal, start,
                 rowVars, decVars, storeVars, byteVars>>

\* an iteration of the loop of skip_to on a decoder error: the ? returns it
SkipToErr ==
  /\ spc = "skip_to"
  /\ PeekableNext # <<>> /\ PeekableNext[1].k # "Ok"
  /\ Pulled(<<>>)
  /\ ScanReturn(from_utf8_error("skip_to", PeekableNext[1], SelfLocation))
  /\ UNCHANGED <<stream, records, parserVars, literal, start, rowVars, decVars, storeVars, byteVars>>

\* the stream yields None: the loop of skip_to ends
SkipToEnd ==
  /\ spc = "skip_to"
  /\ PeekableNext = <<>>
  /\ Pulled(<<>>)
  /\ ScanReturn(Unterminated("skip_to", literal, closest, closest_location))
  /\ UNCHANGED <<stream, records, parserVars, literal, start, rowVars, decVars, storeVars, byteVars>>

\* read_until(chars, lit) is called
CallReadUntil ==
  /\ spc = "idle" /\ gpc = "idle"
  /\ \E lit \in Literals : ScanCall("read_until", lit)
  /\ UNCHANGED <<stream, records, spos, peeked, parserVars, sres, rowVars, decVars, storeVars, byteVars>>

\* an iteration of the loop of read_until on a character
ReadUntilChar ==
  /\ spc = "read_until"
  /\ PeekableNext # <<>> /\ PeekableNext[1].k = "Ok"
  /\ LET char == PeekableNext[1].c
         n == Counted(char)
         r == ReadUntilBody(SelfLocals, read, literal, char,
                            Location(n.chars_read, n.column, n.line))
     IN  /\ Pulled(<<>>)
         /\ SetCounters(n)
         /\ IF r.k = "Loop"
              THEN SetLocals(r.l) /\ read' = r.read /\ UNCHANGED <<spc, sres>>
              ELSE ScanReturn(IF r.k = "Ok"
                                THEN OkVal("read_until", r.read)
                                ELSE Result("read_until", r.k, <<>>, <<>>,
                                            DefaultLocation, <<>>))
  /\ UNCHANGED <<stream, records, literal, start, rowVars, decVars, storeVars, byteVars>>

\* an iteration of the loop of read_until on a decoder error
ReadUntilErr ==
  /\ spc = "read_until"
  /\ PeekableNext # <<>> /\ PeekableNext[1].k # "Ok"
  /\ Pulled(<<>>)
  /\ ScanReturn(from_utf8_error("read_until", PeekableNext[1], SelfLocation))
  /\ UNCHANGED <<stream, records, parserVars, literal, start, rowVars, decVars, storeVars, byteVars>>

\* the stream yields None: the loop of read_until ends
ReadUntilEnd ==
  /\ spc = "read_until"
  /\ PeekableNext = <<>>
  /\ Pulled(<<>>)
  /\ ScanReturn(Unterminated("read_until", literal, closest, closest_location))
  /\ UNCHANGED <<stream, records, parserVars, literal, start, rowVars, decVars, storeVars, byteVars>>

\* the peek slot after peek() took the item p out of it
PeekTaken(p) == <<>>

\* the peek slot after chars.peek() saw the item p: p stays in it
PeekSlot(p) == <<p>>

\* the result of peek() when chars.peek() is p
PeekResult(p) ==
  IF p = <<>>
    THEN Result("peek", "UnterminatedInput", ANY_CHARACTER, <<>>,
                DefaultLocation, <<>>)
  ELSE IF p[1].k = "Ok" THEN OkVal("peek", <<p[1].c>>)
  ELSE from_utf8_error("peek", p[1], SelfLocation)

\* the whole of peek(chars)
PeekBody ==
  /\ Pulled(PeekSlot(PeekableNext))
  /\ sres' = PeekResult(PeekableNext)
  /\ start' = Consumed
  /\ UNCHANGED <<stream, parserVars, spc, literal, localVars, read>>

\* peek(chars) is called and returns
Peek ==
  /\ spc = "idle" /\ gpc = "idle"
  /\ PeekBody
  /\ UNCHANGED <<records, rowVars, decVars, storeVars, byteVars>>

InitScan == DecInit /\ ScanInit /\ stream \in ScanStreams /\ records = <<>>

NextScan ==
  \/ CallSkipTo \/ SkipToChar \/ SkipToErr \/ SkipToEnd
  \/ CallReadUntil \/ ReadUntilChar \/ ReadUntilErr \/ ReadUntilEnd
  \/ Peek

SpecScan == InitScan /\ [][NextScan]_vars

----------------------------------------------------------------------------
(* Models *)

\* HashMap::insert that drops every other entry of the map
insert_alone(map, value) == {value}

\* HashMap::insert on a map kept as the set of its values, keyed by url
insert(map, value) == {x \in map : x.url # value.url} \cup {value}

\* HashMap::get on a map that holds the key
get(map, url) == CHOOSE x \in map : x.url = url

\* find_or_create_channel: the models after the call
find_or_create_channel(m, url, name) ==
  IF \E c \in m.channels : c.url = url THEN m
  ELSE [m EXCEPT !.channels = insert(@, [url |-> url, name |-> name])]

\* find_or_create_video that replaces the video it finds
find_or_create_video_replace(m, url, title, channel) ==
  LET m2 == find_or_create_channel(m, channel.url, channel.name)
  IN  [m2 EXCEPT !.videos =
         insert(@, [url |-> url, title |-> title,
                    channel |-> get(m2.channels, channel.url)])]

\* find_or_create_video: the models after the call; a video holds its
\* channel (Rc<Channel>)
find_or_create_video(m, url, title, channel) ==
  IF \E v \in m.videos : v.url = url THEN m
  ELSE LET m2 == find_or_create_channel(m, channel.url, channel.name)
       IN  [m2 EXCEPT !.videos =
              insert(@, [url |-> url, title |-> title,
                         channel |-> get(m2.channels, channel.url)])]

\* insert_watched with the new watch put first
insert_watched_first(m, when, video) ==
  [m EXCEPT !.watches = <<[video |-> video, when |-> when]>> \o @]

\* insert_watched: the models after the call; video is the video that
\* WhereVideo::Reference holds (Rc<Video>)
insert_watched(m, when, video) ==
  [m EXCEPT !.watches = Append(@, [video |-> video, when |-> when])]

\* Models::count_watches(WhereVideo::Any)
count_watches(m) == Len(m.watches)

\* ModelsParser::insert_row: the models after the call
insert_row(m, r) ==
  LET m1 == find_or_create_channel(m, r.channel_url, r.channel_name)
      channel == get(m1.channels, r.channel_url)
      m2 == find_or_create_video(m1, r.url, r.title, channel)
  IN  insert_watched(m2, r.date, get(m2.videos, r.url))

----------------------------------------------------------------------------
(* ModelsParser: parse and next_data_row *)

\* "Watched\u{00A0}<a href=\""
ANCHOR_OPENING_TO_HREF ==
  <<87, 97, 116, 99, 104, 101, 100, 160, 60, 97, 32, 104, 114, 101, 102, 61, 34>>

\* the other literals of next_data_row: "\"", ">", "<", "<br />", "\n"
QUOTE == <<34>>
GT == <<62>>
LT == <<60>>
BR == <<60, 98, 114, 32, 47, 62>>
LF == <<10>>

\* the date strings that chrono parses with DATE_FORMAT, as read_until
\* returns them: the examples "Jun 29, 2021, 4:49:36 PM EDT" and
\* "Aug 9, 2019, 4:26:40 PM EDT"
ValidDates ==
  {<<74, 117, 110, 32, 50, 57, 44, 32, 50, 48, 50, 49, 44, 32, 52, 58, 52, 57,
     58, 51, 54, 32, 80, 77, 32, 69, 68, 84>>,
   <<65, 117, 103, 32, 57, 44, 32, 50, 48, 49, 57, 44, 32, 52, 58, 50, 54, 58,
     52, 48, 32, 80, 77, 32, 69, 68, 84>>}

\* chrono::Utc.datetime_from_str(date_string, DATE_FORMAT) is Ok
datetime_from_str_ok(date_string) == date_string \in ValidDates

\* what parse returned: Ok(()), Err(e) for the error e of a scanner call,
\* Err(NoRows), Err(DateParseError)
ParseOk == [k |-> "Ok", e |-> NoResult]
ParseErr(e) == [k |-> "Err", e |-> e]
NoRows == [k |-> "NoRows", e |-> NoResult]
DateParseError(location, invalid_date) ==
  [k |-> "DateParseError",
   e |-> [Result("read_until", "DateParseError", <<>>, <<>>, location, <<>>)
            EXCEPT !.val = invalid_date]]

\* the statements of next_data_row that follow a scanner call behind a ?:
\* the field of row the value goes to ("" for none) and the call that comes
\* next (peek is a call without a literal)
Steps ==
  [url |-> [field |-> "url", op |-> "skip_to", lit |-> GT, to |-> "gt"],
   gt |-> [field |-> "", op |-> "read_until", lit |-> LT, to |-> "title"],
   title |-> [field |-> "title", op |-> "skip_to", lit |-> BR, to |-> "br"],
   br |-> [field |-> "", op |-> "peek", lit |-> <<>>, to |-> "peek"],
   ch_quote |-> [field |-> "", op |-> "read_until", lit |-> QUOTE,
                 to |-> "channel_url"],
   channel_url |-> [field |-> "channel_url", op |-> "skip_to", lit |-> GT,
                    to |-> "ch_gt"],
   ch_gt |-> [field |-> "", op |-> "read_until", lit |-> LT,
              to |-> "channel_name"],
   channel_name |-> [field |-> "channel_name", op |-> "skip_to", lit |-> BR,
                     to |-> "ch_br"],
   ch_br |-> [field |-> "", op |-> "read_until", lit |-> LF, to |-> "date"],
   w_br |-> [field |-> "", op |-> "read_until", lit |-> LF, to |-> "date"]]

\* parse returns r
ParseReturn(r) ==
  /\ pres' = r /\ gpc' = "done"
  /\ UNCHANGED <<spc, literal, localVars, read, start>>

\* next_data_row starts: row is the default row and skip_to looks for the
\* anchor
NextDataRow ==
  /\ row' = DefaultRow
  /\ gpc' = "anchor"
  /\ ScanCall("skip_to", ANCHOR_OPENING_TO_HREF)

\* parse(raw_chars) is called on a new ModelsParser
CallParse ==
  /\ gpc = "idle" /\ spc = "idle" /\ sres = NoResult
  /\ first' = TRUE
  /\ NextDataRow
  /\ UNCHANGED <<stream, records, spos, peeked, parserVars, sres, models, pres,
                 decVars, storeVars, byteVars>>

\* next_data_row with every failure of the anchor search taken for the end
\* of the rows
AnchorReturnsQuiet ==
  /\ gpc = "anchor" /\ spc = "idle"
  /\ IF sres.k = "Ok"
       THEN /\ gpc' = "url"
            /\ ScanCall("read_until", QUOTE)
            /\ UNCHANGED pres
       ELSE ParseReturn(IF first THEN NoRows ELSE ParseOk)
  /\ UNCHANGED <<stream, records, spos, peeked, parserVars, sres, first, row,
                 models, decVars, storeVars, byteVars>>

\* next_data_row with a missing anchor taken for an empty row
AnchorReturnsRow ==
  /\ gpc = "anchor" /\ spc = "idle"
  /\ IF sres.k \in {"Ok", "UnterminatedInput"}
       THEN /\ gpc' = "url"
            /\ ScanCall("read_until", QUOTE)
            /\ UNCHANGED pres
       ELSE ParseReturn(ParseErr(sres))
  /\ UNCHANGED <<stream, records, spos, peeked, parserVars, sres, first, row,
                 models, decVars, storeVars, byteVars>>

\* skip_to(ANCHOR_OPENING_TO_HREF) returned: on Ok the row is read, on
\* UnterminatedInput next_data_row returns Ok(None) and parse returns
\* Err(NoRows) for the first row and Ok(()) after it, any other error is
\* returned
AnchorReturns ==
  /\ gpc = "anchor" /\ spc = "idle"
  /\ IF sres.k = "Ok"
       THEN /\ gpc' = "url"
            /\ ScanCall("read_until", QUOTE)
            /\ UNCHANGED pres
     ELSE IF sres.k = "UnterminatedInput"
       THEN ParseReturn(IF first THEN NoRows ELSE ParseOk)
     ELSE ParseReturn(ParseErr(sres))
  /\ UNCHANGED <<stream, records, spos, peeked, parserVars, sres, first, row,
                 models, decVars, storeVars, byteVars>>

\* StepReturns with UnterminatedInput taken for the end of the rows
StepReturnsLenient ==
  /\ gpc \in DOMAIN Steps /\ spc = "idle"
  /\ LET st == Steps[gpc]
     IN  IF sres.k = "UnterminatedInput"
           THEN ParseReturn(IF first THEN NoRows ELSE ParseOk) /\ UNCHANGED row
         ELSE IF sres.k # "Ok"
           THEN ParseReturn(ParseErr(sres)) /\ UNCHANGED row
           ELSE /\ row' = IF st.field = "" THEN row
                          ELSE [row EXCEPT ![st.field] = sres.val]
                /\ gpc' = st.to
                /\ IF st.op = "peek"
                     THEN UNCHANGED <<spc, literal, localVars, read, start>>
                     ELSE ScanCall(st.op, st.lit)
                /\ UNCHANGED pres
  /\ UNCHANGED <<stream, records, spos, peeked, parserVars, sres, first, models,
                 decVars, storeVars, byteVars>>

\* a scanner call of next_data_row behind a ? returned: an error is
\* returned by parse, else the value is stored and the next call is made
StepReturns ==
  /\ gpc \in DOMAIN Steps /\ spc = "idle"
  /\ LET st == Steps[gpc]
     IN  IF sres.k # "Ok"
           THEN ParseReturn(ParseErr(sres)) /\ UNCHANGED row
           ELSE /\ row' = IF st.field = "" THEN row
                          ELSE [row EXCEPT ![st.field] = sres.val]
                /\ gpc' = st.to
                /\ IF st.op = "peek"
                     THEN UNCHANGED <<spc, literal, localVars, read, start>>
                     ELSE ScanCall(st.op, st.lit)
                /\ UNCHANGED pres
  /\ UNCHANGED <<stream, records, spos, peeked, parserVars, sres, first, models,
                 decVars, storeVars, byteVars>>

\* self.peek(chars) of next_data_row
PeekInRow ==
  /\ gpc = "peek" /\ spc = "idle"
  /\ PeekBody
  /\ gpc' = "peeked"
  /\ UNCHANGED <<records, first, row, models, pres, decVars, storeVars, byteVars>>

\* PeekReturns without the arm for 'W'
PeekReturnsNoW ==
  /\ gpc = "peeked" /\ spc = "idle"
  /\ IF sres.k # "Ok"
       THEN ParseReturn(ParseErr(sres))
     ELSE IF sres.val = LT
       THEN gpc' = "ch_quote" /\ ScanCall("skip_to", QUOTE) /\ UNCHANGED pres
     ELSE gpc' = "date" /\ ScanCall("read_until", LF) /\ UNCHANGED pres
  /\ UNCHANGED <<stream, records, spos, peeked, parserVars, sres, first, row,
                 models, decVars, storeVars, byteVars>>

\* the match on the peeked character: '<' starts the channel link, 'W' the
\* text "Watched at", anything else the date
PeekReturns ==
  /\ gpc = "peeked" /\ spc = "idle"
  /\ IF sres.k # "Ok"
       THEN ParseReturn(ParseErr(sres))
     ELSE IF sres.val = LT
       THEN gpc' = "ch_quote" /\ ScanCall("skip_to", QUOTE) /\ UNCHANGED pres
     ELSE IF sres.val = <<87>>
       THEN gpc' = "w_br" /\ ScanCall("skip_to", BR) /\ UNCHANGED pres
     ELSE gpc' = "date" /\ ScanCall("read_until", LF) /\ UNCHANGED pres
  /\ UNCHANGED <<stream, records, spos, peeked, parserVars, sres, first, row,
                 models, decVars, storeVars, byteVars>>

\* DateReturns with a date that does not parse taken for the end of the rows
DateReturnsStop ==
  /\ gpc = "date" /\ spc = "idle"
  /\ IF sres.k # "Ok"
       THEN ParseReturn(ParseErr(sres)) /\ UNCHANGED <<row, models, first>>
     ELSE IF ~datetime_from_str_ok(sres.val)
       THEN /\ ParseReturn(IF first THEN NoRows ELSE ParseOk)
            /\ UNCHANGED <<row, models, first>>
     ELSE /\ models' = insert_row(models, [row EXCEPT !.date = sres.val])
          /\ first' = FALSE
          /\ NextDataRow
          /\ UNCHANGED pres
  /\ UNCHANGED <<stream, records, spos, peeked, parserVars, sres, decVars, storeVars, byteVars>>

\* read_until("\n") returned the date string: the date is parsed, the row
\* is inserted by parse and the next row is looked for
DateReturns ==
  /\ gpc = "date" /\ spc = "idle"
  /\ IF sres.k # "Ok"
       THEN ParseReturn(ParseErr(sres)) /\ UNCHANGED <<row, models, first>>
     ELSE IF ~datetime_from_str_ok(sres.val)
       THEN /\ ParseReturn(DateParseError(SelfLocation, sres.val))
            /\ UNCHANGED <<row, models, first>>
     ELSE /\ models' = insert_row(models, [row EXCEPT !.date = sres.val])
          /\ first' = FALSE
          /\ NextDataRow
          /\ UNCHANGED pres
  /\ UNCHANGED <<stream, records, spos, peeked, parserVars, sres, decVars, storeVars, byteVars>>

\* parser(ParserType::Html, data) once parse returned: Ok with the models of
\* the parser, or the error and no models
parser ==
  IF pres = ParseOk
    THEN [k |-> "Ok", models |-> <<models>>, e |-> pres]
    ELSE [k |-> "Err", models |-> <<>>, e |-> pres]

\* the text of a record of the watch history: the anchor with the url of
\* the video, its title, then the link of the channel (kind "channel"), the
\* text "Watched at" (kind "watched_at") or neither, then the date and "\n"
Render(r) ==
  ANCHOR_OPENING_TO_HREF \o r.url \o QUOTE \o GT \o r.title
    \o <<60, 47, 97, 62>> \o BR
    \o (IF r.kind = "channel"
          THEN <<60, 97, 32, 104, 114, 101, 102, 61>> \o QUOTE \o r.channel_url
                 \o QUOTE \o GT \o r.channel_name \o <<60, 47, 97, 62>> \o BR
        ELSE IF r.kind = "watched_at"
          THEN <<87, 97, 116, 99, 104, 101, 100, 32, 97, 116>> \o BR
        ELSE <<>>)
    \o r.date \o LF

RECURSIVE RenderAll(_)
RenderAll(rs) == IF rs = <<>> THEN <<>> ELSE Render(Head(rs)) \o RenderAll(Tail(rs))

\* the records of the model: a video without channel dated with U+202F
\* before PM, a video with its channel, the first video again after the
\* text "Watched at", and a video whose date "x\ty" is not one
Records ==
  {[url |-> <<117>>, title |-> <<116>>, kind |-> "date",
    channel_url |-> <<>>, channel_name |-> <<>>,
    date |-> <<74, 117, 110, 32, 50, 57, 44, 32, 50, 48, 50, 49, 44, 32, 52,
               58, 52, 57, 58, 51, 54, 8239, 80, 77, 32, 69, 68, 84>>],
   [url |-> <<118>>, title |-> <<115>>, kind |-> "channel",
    channel_url |-> <<99>>, channel_name |-> <<110>>,
    date |-> <<65, 117, 103, 32, 57, 44, 32, 50, 48, 49, 57, 44, 32, 52, 58,
               50, 54, 58, 52, 48, 32, 80, 77, 32, 69, 68, 84>>],
   [url |-> <<117>>, title |-> <<116>>, kind |-> "watched_at",
    channel_url |-> <<>>, channel_name |-> <<>>,
    date |-> <<65, 117, 103, 32, 57, 44, 32, 50, 48, 49, 57, 44, 32, 52, 58,
               50, 54, 58, 52, 48, 32, 80, 77, 32, 69, 68, 84>>],
   [url |-> <<118>>, title |-> <<115>>, kind |-> "date",
    channel_url |-> <<>>, channel_name |-> <<>>,
    date |-> <<120, 9, 121>>]}

\* the items of the characters of text
OkAll(text) == [i \in 1..Len(text) |-> Ok(text[i])]

\* what follows the records: nothing, "x", the start "Watched\u{00A0}" of an
\* anchor, or "x" and a decoder error
Tails ==
  {<<>>, OkAll(<<120>>), OkAll(<<87, 97, 116, 99, 104, 101, 100, 160>>),
   OkAll(<<120>>) \o <<InvalidBytes(<<192>>)>>, OkAll(<<120>>) \o <<IoError>>}

\* the inputs of parse: up to MaxRecords records and a tail
WholeInputs ==
  {[records |-> rs, stream |-> OkAll(RenderAll(rs)) \o tail] :
     rs \in UNION {[1..n -> Records] : n \in 0..MaxRecords}, tail \in Tails}

\* the inputs of parse that stop within a record, at the end of the stream
\* or at a decoder error; the record is the first one or follows a record
\* with a channel
CutInputs ==
  UNION {{[records |-> p \o (IF n = Len(Render(r)) THEN <<r>> ELSE <<>>),
           stream |-> OkAll(RenderAll(p) \o Take(Render(r), n)) \o e] :
            n \in 0..Len(Render(r)),
            e \in {<<>>, <<InvalidBytes(<<192>>)>>, <<IoError>>}} :
         r \in Records,
         p \in {<<>>} \cup {<<q>> : q \in {x \in Records : x.kind = "channel"}}}

InitParse ==
  /\ DecInit /\ ScanInit
  /\ \E i \in WholeInputs \cup CutInputs :
       stream = i.stream /\ records = i.records

NextParse ==
  \/ CallParse \/ AnchorReturns \/ StepReturns
  \/ PeekInRow \/ PeekReturns \/ DateReturns
  \/ SkipToChar \/ SkipToErr \/ SkipToEnd
  \/ ReadUntilChar \/ ReadUntilErr \/ ReadUntilEnd

SpecParse == InitParse /\ [][NextParse]_vars

----------------------------------------------------------------------------
(* Models::to_string and Models::from_str *)

\* the orders in which a HashMap of these values can be iterated
Orders(map) ==
  {q \in [1..Cardinality(map) -> map] :
     \A i, j \in 1..Cardinality(map) : q[i] = q[j] => i = j}

\* the ScalarModels that to_string serialises: a watch names its video and
\* a video its channel by id, channels and videos are listed in the maps'
\* iteration order
to_string(m) ==
  {[watches |-> [i \in 1..Len(m.watches) |->
                   [video |-> m.watches[i].video.url,
                    when |-> m.watches[i].when]],
    channels |-> [i \in 1..Cardinality(m.channels) |->
                   [url |-> qc[i].url, name |-> qc[i].name]],
    videos |-> [i \in 1..Cardinality(m.videos) |->
                   [url |-> qv[i].url, title |-> qv[i].title,
                    channel |-> qv[i].channel.url]]] :
     qc \in Orders(m.channels), qv \in Orders(m.videos)}

\* the first loop of from_str: the channels map
RECURSIVE load_channels(_, _)
load_channels(channels, list) ==
  IF list = <<>> THEN channels
  ELSE load_channels(insert(channels, [url |-> list[1].url, name |-> list[1].name]),
                     Tail(list))

\* the second loop of from_str with every video's channel left blank
RECURSIVE load_videos_unlinked(_, _, _)
load_videos_unlinked(channels, videos, list) ==
  IF list = <<>> THEN videos
  ELSE load_videos_unlinked(
         channels,
         insert(videos, [url |-> list[1].url, title |-> list[1].title,
                         channel |-> [url |-> list[1].channel, name |-> <<>>]]),
         Tail(list))

\* the second loop of from_str: the videos map; a video's channel is looked
\* up by id
RECURSIVE load_videos(_, _, _)
load_videos(channels, videos, list) ==
  IF list = <<>> THEN videos
  ELSE load_videos(
         channels,
         insert(videos, [url |-> list[1].url, title |-> list[1].title,
                         channel |-> get(channels, list[1].channel)]),
         Tail(list))

\* Models::from_str on the text of these ScalarModels; unwrap() panics when
\* an id names nothing; the third loop looks the video of a watch up by id
from_str(sc) ==
  LET channels == load_channels({}, sc.channels)
  IN  IF \/ \E i \in 1..Len(sc.videos) :
               \A c \in channels : c.url # sc.videos[i].channel
         \/ \E i \in 1..Len(sc.watches) :
               \A j \in 1..Len(sc.videos) : sc.videos[j].url # sc.watches[i].video
      THEN [k |-> "Panic", models |-> <<>>]
      ELSE LET videos == load_videos(channels, {}, sc.videos)
           IN  [k |-> "Ok",
                models |-> <<[channels |-> channels, videos |-> videos,
                              watches |-> [i \in 1..Len(sc.watches) |->
                                            [video |-> get(videos, sc.watches[i].video),
                                             when |-> sc.watches[i].when]]]>>]

----------------------------------------------------------------------------
(* json_parser::parse *)

\* "(hidden)"
DEFAULT_CHANNEL == <<40, 104, 105, 100, 100, 101, 110, 41>>

\* "Visited YouTube Music"
VisitedYouTubeMusic ==
  <<86, 105, 115, 105, 116, 101, 100, 32, 89, 111, 117, 84, 117, 98, 101, 32,
    77, 117, 115, 105, 99>>

\* "Watched "
WatchedPrefix == <<87, 97, 116, 99, 104, 101, 100, 32>>

\* times that parse_from_rfc3339 accepts: "2023-06-04T04:07:59.107Z" and
\* "2023-06-05T04:07:59.107Z"
ValidTimes ==
  << <<50, 48, 50, 51, 45, 48, 54, 45, 48, 52, 84, 48, 52, 58, 48, 55, 58, 53, 57,
       46, 49, 48, 55, 90>>,
     <<50, 48, 50, 51, 45, 48, 54, 45, 48, 53, 84, 48, 52, 58, 48, 55, 58, 53, 57,
       46, 49, 48, 55, 90>> >>

\* chrono::DateTime::parse_from_rfc3339 succeeds on the text
parse_from_rfc3339_ok(time) == time \in {ValidTimes[1], ValidTimes[2]}

\* the objects of the input array: titleUrl and subtitles are <<>> when the
\* field is missing, else hold the value; likewise a subtitle's url
JsonObjects ==
  { [title |-> VisitedYouTubeMusic, titleUrl |-> <<>>, subtitles |-> <<>>,
     time |-> <<120>>],
    [title |-> VisitedYouTubeMusic, titleUrl |-> <<<<119>>>>,
     subtitles |-> <<<<[name |-> <<111>>, url |-> <<<<101>>>>]>>>>,
     time |-> ValidTimes[1]],
    [title |-> WatchedPrefix \o <<120>>, titleUrl |-> <<<<117>>>>,
     subtitles |-> <<<<[name |-> <<110>>, url |-> <<<<99>>>>],
                       [name |-> <<109>>, url |-> <<<<100>>>>]>>>>,
     time |-> ValidTimes[1]],
    [title |-> WatchedPrefix \o <<121>>, titleUrl |-> <<<<117>>>>,
     subtitles |-> <<>>, time |-> ValidTimes[2]],
    [title |-> <<122>>, titleUrl |-> <<<<118>>>>, subtitles |-> <<<<>>>>,
     time |-> ValidTimes[1]],
    [title |-> WatchedPrefix \o <<120>>, titleUrl |-> <<<<118>>>>,
     subtitles |-> <<<<[name |-> <<109>>, url |-> <<>>]>>>>,
     time |-> <<120>>],
    [title |-> <<122>>, titleUrl |-> <<>>,
     subtitles |-> <<<<[name |-> <<110>>, url |-> <<DEFAULT_CHANNEL>>]>>>>,
     time |-> ValidTimes[2]] }

\* #[serde(default)]: a missing field is the default of its type
or_default(field) == IF field = <<>> THEN <<>> ELSE field[1]

\* Deserialize for DataRow and Subtitles
DataRowOf(o) ==
  [title |-> o.title,
   title_url |-> or_default(o.titleUrl),
   subtitles |-> [i \in 1..Len(or_default(o.subtitles)) |->
                    [name |-> or_default(o.subtitles)[i].name,
                     url |-> or_default(or_default(o.subtitles)[i].url)]],
   time |-> o.time]

\* parse_data_rows
parse_data_rows(input) == [i \in 1..Len(input) |-> DataRowOf(input[i])]

\* the rows parse iterates over
rows == parse_data_rows(jrows)

\* no row is skipped
is_skipped_never(r) == FALSE

\* the row is skipped as not a video
is_skipped(r) == r.title = VisitedYouTubeMusic

\* the channel of a row, with an empty name and URL when it has no subtitles
channel_of_blank(r) ==
  IF r.subtitles # <<>>
  THEN [name |-> r.subtitles[1].name, url |-> r.subtitles[1].url]
  ELSE [name |-> <<>>, url |-> <<>>]

\* channel_name and channel_url of a row
channel_of(r) ==
  IF r.subtitles # <<>>
  THEN [name |-> r.subtitles[1].name, url |-> r.subtitles[1].url]
  ELSE [name |-> DEFAULT_CHANNEL, url |-> DEFAULT_CHANNEL]

\* the title of a row without the prefix "Watched "
title_of(r) ==
  IF Len(r.title) >= Len(WatchedPrefix) /\ Take(r.title, Len(WatchedPrefix)) = WatchedPrefix
  THEN DropFirst(r.title, 8)
  ELSE r.title

\* the three model calls of the loop body: the models after them
json_insert(m, r) ==
  LET m1 == find_or_create_channel(m, channel_of(r).url, channel_of(r).name)
      channel == get(m1.channels, channel_of(r).url)
      m2 == find_or_create_video(m1, r.title_url, title_of(r), channel)
  IN  insert_watched(m2, r.time, get(m2.videos, r.title_url))

\* the record that a row folds into the model
JsonRecord(r) ==
  [url |-> r.title_url, title |-> title_of(r),
   channel_url |-> channel_of(r).url, channel_name |-> channel_of(r).name,
   date |-> r.time]

----------------------------------------------------------------------------
(* The record store: folding records, the JSON parser and the cache *)

\* the records that insert_row folds
StoreRows ==
  { [url |-> <<117>>, title |-> <<116>>, channel_url |-> <<99>>,
     channel_name |-> <<110>>, date |-> <<49>>],
    [url |-> <<117>>, title |-> <<115>>, channel_url |-> <<100>>,
     channel_name |-> <<109>>, date |-> <<50>>],
    [url |-> <<118>>, title |-> <<116>>, channel_url |-> <<99>>,
     channel_name |-> <<109>>, date |-> <<49>>],
    [url |-> <<118>>, title |-> <<115>>, channel_url |-> <<>>,
     channel_name |-> <<>>, date |-> <<50>>] }

\* ModelsParser::insert_row on one more record
InsertRow ==
  /\ jpc = "idle" /\ cache = <<>> /\ Len(folded) < MaxFold
  /\ \E r \in StoreRows :
       /\ models' = insert_row(models, r)
       /\ folded' = Append(folded, r)
  /\ UNCHANGED <<stream, records, spos, peeked, parserVars, spc, literal, localVars,
                 read, sres, start, gpc, first, row, pres, jrows, jpc, ji, jres,
                 cache, loaded, decVars, byteVars>>

\* json_parser::parse is called on an array of up to MaxRows objects: the
\* rows are deserialised, the models are new
JsonCall ==
  /\ jpc = "idle" /\ cache = <<>> /\ folded = <<>>
  /\ \E input \in UNION {[1..n -> JsonObjects] : n \in 0..MaxRows} : jrows' = input
  /\ jpc' = "loop" /\ ji' = 1
  /\ models' = NewModels
  /\ UNCHANGED <<stream, records, spos, peeked, parserVars, spc, literal, localVars,
                 read, sres, start, gpc, first, row, pres, folded, jres,
                 cache, loaded, decVars, byteVars>>

\* JsonRow with a row left out when its time does not parse
JsonRowLenient ==
  /\ jpc = "loop" /\ ji <= Len(rows)
  /\ LET r == rows[ji]
     IN  IF is_skipped(r) \/ ~parse_from_rfc3339_ok(r.time)
         THEN /\ ji' = ji + 1
              /\ UNCHANGED <<models, folded, jpc, jres>>
         ELSE /\ models' = json_insert(models, r)
              /\ folded' = Append(folded, JsonRecord(r))
              /\ ji' = ji + 1
              /\ UNCHANGED <<jpc, jres>>
  /\ UNCHANGED <<stream, records, spos, peeked, parserVars, spc, literal, localVars,
                 read, sres, start, gpc, first, row, pres, jrows,
                 cache, loaded, decVars, byteVars>>

\* one iteration of the for loop
JsonRow ==
  /\ jpc = "loop" /\ ji <= Len(rows)
  /\ LET r == rows[ji]
     IN  IF is_skipped(r)
         THEN /\ ji' = ji + 1
              /\ UNCHANGED <<models, folded, jpc, jres>>
         ELSE IF ~parse_from_rfc3339_ok(r.time)
         THEN /\ jpc' = "done"
              /\ jres' = [k |-> "Err", models |-> <<>>]
              /\ UNCHANGED <<models, folded, ji>>
         ELSE /\ models' = json_insert(models, r)
              /\ folded' = Append(folded, JsonRecord(r))
              /\ ji' = ji + 1
              /\ UNCHANGED <<jpc, jres>>
  /\ UNCHANGED <<stream, records, spos, peeked, parserVars, spc, literal, localVars,
                 read, sres, start, gpc, first, row, pres, jrows,
                 cache, loaded, decVars, byteVars>>

\* the loop is over: Ok(models)
JsonReturn ==
  /\ jpc = "loop" /\ ji > Len(rows)
  /\ jpc' = "done"
  /\ jres' = [k |-> "Ok", models |-> <<models>>]
  /\ UNCHANGED <<stream, records, spos, peeked, parserVars, spc, literal, localVars,
                 read, sres, start, rowVars, folded, jrows, ji, cache, loaded, decVars, byteVars>>

\* the models that a parser built are written to the cache
WriteCache ==
  /\ cache = <<>>
  /\ jpc = "idle" \/ (jpc = "done" /\ jres.k = "Ok")
  /\ \E sc \in to_string(models) : cache' = <<sc>>
  /\ UNCHANGED <<stream, records, spos, peeked, parserVars, spc, literal, localVars,
                 read, sres, start, rowVars, folded, jrows, jpc, ji, jres, loaded,
                 decVars, byteVars>>

\* the cache is loaded
LoadCache ==
  /\ cache # <<>> /\ loaded = <<>>
  /\ loaded' = <<from_str(cache[1])>>
  /\ UNCHANGED <<stream, records, spos, peeked, parserVars, spc, literal, localVars,
                 read, sres, start, rowVars, folded, jrows, jpc, ji, jres, cache,
                 decVars, byteVars>>

NextStore ==
  \/ InsertRow
  \/ JsonCall
  \/ JsonRow
  \/ JsonReturn
  \/ WriteCache
  \/ LoadCache

SpecStore == Init /\ [][NextStore]_vars

----------------------------------------------------------------------------
(* The byte scanner of main.rs: skip_to, read_until, peek over             *)
(* Peekable<Enumerate<Bytes<BufReader<File>>>>                             *)

\* the byte streams: up to MaxStream items of what the Bytes iterator
\* yields, Ok(byte) for 'a' and 'b' and Err(io::Error)
ByteStreams == UNION {[1..n -> {Ok(97), Ok(98), IoError}] : n \in 0..MaxStream}

\* the strings sought: "ab" and "b"
ByteStrings == {<<97, 98>>, <<98>>}

\* the locals of the byte scanner become these
SetByteLocals(op, str, k, res, st) ==
  /\ mpc' = op /\ string' = str /\ bi' = k /\ result' = res
  /\ starting_byte_index' = st

\* the running call of the byte scanner returns r
ByteReturn(r) ==
  /\ mres' = r
  /\ SetByteLocals("idle", <<>>, 0, <<>>, 0)

\* the call op with the argument str begins: iter_index peeks at the next
\* item for its index and panics when there is none
iter_index(op, str) ==
  /\ Pulled(<<PeekableNext>>)
  /\ IF PeekableNext = <<>>
       THEN /\ mres' = ByteResult(op, "Panic", <<>>, 0, <<>>)
            /\ SetByteLocals("panic", <<>>, 0, <<>>, 0)
       ELSE /\ SetByteLocals(op, str, 0, <<>>, Consumed)
            /\ UNCHANGED mres

\* what the scanner's own variables and the others keep
ByteFrame ==
  UNCHANGED <<stream, records, parserVars, spc, literal, localVars, read, sres,
              start, rowVars, decVars, storeVars>>

\* skip_to(bytes, string) is called
MainCallSkipTo ==
  /\ mpc = "idle"
  /\ \E str \in ByteStrings : iter_index("skip_to", str)
  /\ ByteFrame

\* read_until(bytes, string) is called
MainCallReadUntil ==
  /\ mpc = "idle"
  /\ \E str \in ByteStrings : iter_index("read_until", str)
  /\ ByteFrame

\* an iteration of the loop of skip_to or read_until on a byte
MainByte ==
  /\ mpc \in {"skip_to", "read_until"}
  /\ PeekableNext # <<>> /\ PeekableNext[1].k = "Ok"
  /\ Pulled(<<>>)
  /\ LET byte == PeekableNext[1].c
     IN  IF string[bi + 1] = byte
           THEN IF bi + 1 = Len(string)
                  THEN ByteReturn(ByteResult(mpc, "Ok", <<>>, 0,
                                             IF mpc = "read_until" THEN result ELSE <<>>))
                  ELSE /\ bi' = bi + 1
                       /\ result' = IF mpc = "read_until" THEN Append(result, byte)
                                    ELSE result
                       /\ UNCHANGED <<mpc, string, starting_byte_index, mres>>
           ELSE /\ bi' = 0
                /\ result' = IF mpc = "read_until" THEN Append(result, byte)
                             ELSE result
                /\ UNCHANGED <<mpc, string, starting_byte_index, mres>>
  /\ ByteFrame

\* an iteration of the loop on an io::Error: the ? returns it
MainErr ==
  /\ mpc \in {"skip_to", "read_until"}
  /\ PeekableNext # <<>> /\ PeekableNext[1].k # "Ok"
  /\ Pulled(<<>>)
  /\ ByteReturn(ByteResult(mpc, "IoError", <<>>, 0, <<>>))
  /\ ByteFrame

\* the bytes are used up: the loop ends
MainEnd ==
  /\ mpc \in {"skip_to", "read_until"}
  /\ PeekableNext = <<>>
  /\ Pulled(<<>>)
  /\ ByteReturn(ByteResult(mpc, "UnterminatedInput", string, starting_byte_index,
                           <<>>))
  /\ ByteFrame

\* peek(bytes) is called and returns
MainPeek ==
  /\ mpc = "idle"
  /\ Pulled(<<PeekableNext>>)
  /\ IF PeekableNext = <<>>
       THEN /\ mres' = ByteResult("peek", "Panic", <<>>, 0, <<>>)
            /\ SetByteLocals("panic", <<>>, 0, <<>>, 0)
       ELSE /\ mres' = IF PeekableNext[1].k = "Ok"
                         THEN ByteResult("peek", "Ok", <<>>, 0, <<PeekableNext[1].c>>)
                         ELSE ByteResult("peek", "IoError", <<>>, 0, <<>>)
            /\ SetByteLocals("idle", <<>>, 0, <<>>, 0)
  /\ ByteFrame

InitBytes == DecInit /\ ScanInit /\ stream \in ByteStreams /\ records = <<>>

NextBytes ==
  \/ MainCallSkipTo \/ MainCallReadUntil
  \/ MainByte \/ MainErr \/ MainEnd
  \/ MainPeek

SpecBytes == InitBytes /\ [][NextBytes]_vars

----------------------------------------------------------------------------
(* Reference computations used by the properties *)

\* char::encode_utf8: the bytes of a scalar value
EncodeUtf8(c) ==
  IF c < 128 THEN <<c>>
  ELSE IF c < 2048 THEN <<192 + (c \div 64), 128 + (c % 64)>>
  ELSE IF c < 65536
    THEN <<224 + (c \div 4096), 128 + ((c \div 64) % 64), 128 + (c % 64)>>
  ELSE <<240 + (c \div 262144), 128 + ((c \div 4096) % 64),
         128 + ((c \div 64) % 64), 128 + (c % 64)>>

\* the bytes a returned outcome stands for
OutcomeBytes(o) == IF o.k = "Ok" THEN EncodeUtf8(o.c) ELSE o.bytes

RECURSIVE FlatBytes(_)
FlatBytes(os) ==
  IF os = <<>> THEN <<>> ELSE OutcomeBytes(os[1]) \o FlatBytes(Tail(os))

\* next() called until End on a decoder d whose source hands out chunk in
\* one read and nothing afterwards: the outcomes returned before End, and
\* whether End was returned at all
RECURSIVE Drain(_, _)
Drain(d, chunk) ==
  IF d.chars # <<>>
    THEN LET rest == Drain(Iter(d.bytes_read, d.buf, Take(d.chars, Len(d.chars) - 1),
                                d.buf_len), chunk)
         IN  [outs |-> <<Ok(d.chars[Len(d.chars)])>> \o rest.outs, ended |-> rest.ended]
    ELSE LET r == LoopRound(d, chunk)
             again == IF r.ret.k = "Continue" THEN LoopRound(r.d, <<>>) ELSE r
         IN  IF again.ret.k = "End" THEN [outs |-> <<>>, ended |-> TRUE]
             ELSE IF again.ret.k = "Continue" THEN [outs |-> <<>>, ended |-> FALSE]
             ELSE LET rest == Drain(again.d, <<>>)
                  IN  [outs |-> <<again.ret>> \o rest.outs, ended |-> rest.ended]

\* the whole byte sequence delivered by a single read
SingleRead(bytes) == Drain(NewIter, bytes)

\* next() has just returned End
AtEnd == pc = "idle" /\ ret = End

\* the bytes the source has handed out
Delivered == Take(written, rpos)

----------------------------------------------------------------------------
(* Properties of the decoder *)

\* C1: chunk-boundary invariance. Whenever next() returns End, the Ok and
\* InvalidBytes outcomes returned so far are those of a decoder that got the
\* same bytes in a single read (and that decoder reaches End too), whatever
\* the chunks, zero reads and read errors in between.
C1_ChunkInvariance ==
  (AtEnd /\ bytes_read <= BUFFER_SIZE) =>
    LET ref == SingleRead(Delivered)
    IN  ref.ended /\ ref.outs = out

\* a three-byte character was delivered in more than one read and decoded
C1_Witness ==
  /\ AtEnd /\ split /\ bytes_read = 3
  /\ from_utf8(Delivered).ok /\ out = <<Ok(StrChars(Delivered)[1])>>

\* C2: End is not permanent. When End is returned again after the first
\* End and the bytes the source handed out in between are valid UTF-8, the
\* outcomes returned in between are exactly the characters of those bytes,
\* in order.
C2_ResumesAfterEnd ==
  (AtEnd /\ endFirst # NoMark) =>
    LET new == SubSeq(written, endFirst.r + 1, rpos)
    IN  from_utf8(new).ok =>
          SubSeq(out, endFirst.n + 1, Len(out)) = OkAll(StrChars(new))

\* End, then a character from bytes written later, then End again
C2_Witness ==
  /\ AtEnd /\ endFirst # NoMark
  /\ rpos > endFirst.r /\ Len(out) > endFirst.n
  /\ from_utf8(SubSeq(written, endFirst.r + 1, rpos)).ok

\* C3: once the source has reached its permanent end, every next() call
\* returns after finitely many reads. At the permanent end every read
\* returns 0 and a round of the loop that neither returns nor changes the
\* decoder repeats forever, so no call may go through MaxSpin such rounds.
C3_NextReturns == spins < MaxSpin

\* the buffer holds a truncated multi-byte sequence
Truncated(d) ==
  LET e == from_utf8(Live(d))
  IN  d.buf_len > 0 /\ ~e.ok /\ e.valid_up_to = 0 /\ e.error_len = 0

\* C4: a read that returns 0 at the permanent end while the buffer holds a
\* truncated multi-byte sequence makes next() return those bytes as
\* InvalidBytes.
C4_FlushesTruncated ==
  [][(pc = "read" /\ closed /\ Pending = <<>> /\ lastRead' = 0 /\ Truncated(Self))
       => (pc' = "idle" /\ ret' = InvalidBytes(Live(Self)) /\ buf_len' = 0)]_vars

\* C5: End is returned only after a read of 0 bytes, with an empty buffer
\* and an empty queue.
C5_EndOnlyWhenEmpty ==
  AtEnd => (lastRead = 0 /\ buf_len = 0 /\ chars = <<>>)

\* End returned after bytes were decoded
C5_Witness == AtEnd /\ bytes_read > 0 /\ Len(out) > 1

\* w is valid characters, one byte that is not, valid characters
OneInvalidAt(w, i) ==
  /\ i <= Len(w)
  /\ w[i] >= 128
  /\ from_utf8(Take(w, i - 1)).ok
  /\ from_utf8(DropFirst(w, i)).ok

ExpectedOneInvalid(w, i) ==
  OkAll(StrChars(Take(w, i - 1))) \o <<InvalidBytes(<<w[i]>>)>>
    \o OkAll(StrChars(DropFirst(w, i)))

\* C6: a stream of valid characters around one invalid byte is decoded as
\* the characters before it, InvalidBytes of that byte, the characters after
\* it, and End.
\* Stated on the runs over such a stream that has ended: what was returned
\* so far is the beginning of that sequence, it is all of it when End is
\* returned, and no call is left going round on reads of 0.
C6_OneInvalidByte ==
  \A i \in 1..MaxBytes :
    (closed /\ OneInvalidAt(written, i)) =>
      LET exp == ExpectedOneInvalid(written, i)
      IN  /\ Len(out) <= Len(exp) /\ out = Take(exp, Len(out))
          /\ AtEnd /\ Pending = <<>> => out = exp
          /\ spins = 0

\* C7: byte conservation. The bytes of the outcomes returned, then of the
\* queued characters in the order they will be returned, then buf[..buf_len]
\* are the bytes the source has handed out; bytes_read counts them.
C7_ByteConservation ==
  /\ FlatBytes(out) \o FlatBytes(OkAll(Rev(chars))) \o Live(Self) = Delivered
  /\ bytes_read = Len(Delivered)

\* an invalid byte was returned while a valid byte after it is still held,
\* and a character is queued
C7_Witness ==
  \/ /\ Len(out) > 0 /\ out[Len(out)].k = "InvalidBytes"
     /\ buf_len > 0 /\ from_utf8(Live(Self)).ok
  \/ chars # <<>> /\ buf_len > 0

\* C8: a read error changes nothing in the decoder and next() returns
\* IoError; the outcomes at the next End are those of an undisturbed decoder.
C8_ReadErrorFrame ==
  /\ [][(ioErrs' = ioErrs + 1) =>
          (/\ pc = "read" /\ pc' = "idle" /\ ret' = IoError
           /\ UNCHANGED <<bytes_read, buf, chars, buf_len, out, rpos>>)]_vars
  /\ [](AtEnd /\ ioErrs > 0 /\ bytes_read <= BUFFER_SIZE
          => out = SingleRead(Delivered).outs)

\* a read failed while the buffer held part of a character
C8_Witness ==
  pc = "idle" /\ ret = IoError /\ lastRead = -1 /\ Truncated(Self)

\* C28: reader.read() is never called while characters are queued: a call
\* of next() with a non-empty queue returns the character at its head and
\* leaves the source and the buffer alone, so IoError and End are returned
\* only with an empty queue.
C28_QueueDrainedFirst ==
  /\ [](pc = "read" => chars = <<>>)
  /\ []((pc = "idle" /\ ret.k \in {"End", "IoError"}) => chars = <<>>)
  /\ [][(chars # <<>> /\ (pc' # pc \/ out' # out \/ chars' # chars)) =>
          /\ pc' = "idle" /\ ret' = Ok(chars[Len(chars)])
          /\ out' = Append(out, ret')
          /\ chars' = Take(chars, Len(chars) - 1)
          /\ UNCHANGED <<rpos, ioErrs, lastRead, buf, buf_len, bytes_read>>]_vars

\* two characters are queued and the source is at its end
C28_Witness ==
  /\ pc = "idle" /\ Len(chars) = 2 /\ closed /\ Pending = <<>>

\* C39: buf_len never exceeds BUFFER_SIZE, and reader.read() is only called
\* with buf_len < BUFFER_SIZE: the slice it is handed is not empty, so it
\* cannot return 0 while the source has data
C39_BufferBound ==
  /\ buf_len <= BUFFER_SIZE
  /\ pc = "read" => (buf_len < BUFFER_SIZE /\ Room > 0)
  /\ (pc = "read" /\ Pending # <<>>) => ~ENABLED ReadZero

\* a read is about to be made into the last byte of the buffer, and the
\* file has bytes left
C39_Witness ==
  /\ pc = "read" /\ buf_len = BUFFER_SIZE - 1 /\ Pending # <<>>
  /\ out # <<>>

----------------------------------------------------------------------------
(* Properties of the scanner *)

\* the characters of the items of a stream part
ItemChars(items) == [i \in 1..Len(items) |-> items[i].c]

AllChars(items) == \A i \in 1..Len(items) : items[i].k = "Ok"

\* what was left in the stream when the running or last call began
Rest == DropFirst(stream, start)

\* lit is in text at offset i (0-based)
OccursAt(lit, text, i) ==
  i + Len(lit) <= Len(text) /\ SubSeq(text, i + 1, i + Len(lit)) = lit

Occurs(lit, text) == \E i \in 0..Len(text) : OccursAt(lit, text, i)

FirstOccurrence(lit, text) ==
  CHOOSE i \in 0..Len(text) :
    OccursAt(lit, text, i) /\ \A j \in 0..(i - 1) : ~OccursAt(lit, text, j)

\* skip_to has just returned
SkipToDone == spc = "idle" /\ sres.op = "skip_to"

\* C9: skip_to(S) over a stream of characters returns Ok exactly when S
\* occurs in what was left of the stream, and then stops right after the
\* first occurrence.
C9_RollingSubstringMatch ==
  (SkipToDone /\ AllChars(Rest)) =>
    LET text == ItemChars(Rest)
    IN  /\ (sres.k = "Ok") <=> Occurs(literal, text)
        /\ sres.k = "Ok" =>
             Consumed = start + FirstOccurrence(literal, text) + Len(literal)

\* C10: when skip_to(S) returns Ok the last characters taken from the
\* stream are those of S, so the next character taken is the one after the
\* matched literal.
C10_StopsAfterLiteral ==
  (SkipToDone /\ sres.k = "Ok") =>
    /\ Consumed >= start + Len(literal)
    /\ SubSeq(stream, Consumed - Len(literal) + 1, Consumed) = OkAll(literal)

\* "ab" was found after a skipped character, with a character left after it
C10_Witness ==
  /\ SkipToDone /\ sres.k = "Ok" /\ Len(literal) = 2
  /\ Consumed = start + 3 /\ Consumed < Len(stream)

\* skip_to or read_until has just returned
SearchDone == spc = "idle" /\ sres.op \in {"skip_to", "read_until"}

\* the items the running or last call took from the stream
Taken == SubSeq(stream, start + 1, Consumed)

\* a step in which skip_to or read_until returns UnterminatedInput
EndsUnterminated ==
  /\ spc \in {"skip_to", "read_until"} /\ spc' = "idle"
  /\ sres'.k = "UnterminatedInput"

\* C11: when the stream ends while a partial match is in progress, the
\* UnterminatedInput of skip_to / read_until carries that partial match as
\* closest.
C11_ClosestIsPartialAtEnd ==
  [][(EndsUnterminated /\ found # <<>>) =>
       (sres'.closest # <<>> /\ sres'.closest[1][1] = found)]_vars

\* p is a non-empty proper prefix of lit
ProperPrefix(p, lit) ==
  /\ 0 < Len(p) /\ Len(p) < Len(lit)
  /\ p = SubSeq(lit, 1, Len(p))

\* C12: the closest carried by an UnterminatedInput of skip_to / read_until
\* is a non-empty proper prefix of the literal sought, and was seen in the
\* stream.
C12_ClosestIsProperPrefix ==
  (SearchDone /\ sres.k = "UnterminatedInput" /\ sres.closest # <<>>) =>
    /\ ProperPrefix(sres.closest[1][1], literal)
    /\ Occurs(sres.closest[1][1], ItemChars(Taken))

\* C13: skip_to / read_until over characters that end before the literal is
\* matched return UnterminatedInput once the stream is used up; expected is
\* the literal sought, never "1 more character", and closest is None when
\* the first character of the literal was never taken.
C13_UnterminatedNamesLiteral ==
  SearchDone =>
    /\ AllChars(Rest) => sres.k \in {"Ok", "UnterminatedInput"}
    /\ sres.k = "UnterminatedInput" =>
         /\ Consumed = Len(stream) /\ AllChars(Taken)
         /\ sres.expected = literal
         /\ sres.expected # ONE_MORE_CHARACTER
         /\ (\A i \in 1..Len(Taken) : Taken[i].c # literal[1])
              => sres.closest = <<>>

\* "ab" was not found in two characters and no partial match was recorded
C13_Witness ==
  /\ SearchDone /\ sres.k = "UnterminatedInput" /\ sres.closest = <<>>
  /\ literal = <<97, 98>> /\ Len(Taken) = 2 /\ sres.expected = <<97, 98>>

\* t has no whitespace but U+0020 and no two spaces in a row
Normalised(t) ==
  /\ \A i \in 1..Len(t) : is_whitespace(t[i]) => t[i] = 32
  /\ \A i \in 1..(Len(t) - 1) : ~(t[i] = 32 /\ t[i + 1] = 32)

\* read_until has just returned Ok(read)
ReadUntilOk == spc = "idle" /\ sres.op = "read_until" /\ sres.k = "Ok"

\* C14: the string read_until builds and returns is whitespace-normalised:
\* its only whitespace is U+0020 and it never holds two spaces in a row.
C14_ReadIsNormalised ==
  /\ Normalised(read)
  /\ ReadUntilOk => Normalised(sres.val)

\* two whitespace characters before the literal came back as one space
C14_Witness ==
  /\ ReadUntilOk /\ sres.val = <<32>>
  /\ Len(Taken) = 2 + Len(literal)
  /\ is_whitespace(Taken[1].c) /\ is_whitespace(Taken[2].c)

RECURSIVE CollapseFrom(_, _)
\* the characters of text from index i on, each whitespace character as a
\* space and none for a whitespace character that follows another
CollapseFrom(text, i) ==
  IF i > Len(text) THEN <<>>
  ELSE IF ~is_whitespace(text[i]) THEN <<text[i]>> \o CollapseFrom(text, i + 1)
  ELSE IF i > 1 /\ is_whitespace(text[i - 1]) THEN CollapseFrom(text, i + 1)
  ELSE <<32>> \o CollapseFrom(text, i + 1)

\* the whitespace-collapsed form of text
Collapsed(text) == CollapseFrom(text, 1)

\* C15: when read_until(S) returns Ok the last characters taken are those of
\* S and the string returned is the whitespace-collapsed form of all the
\* characters taken before them, in order.
C15_ReadIsCollapsedPrefix ==
  ReadUntilOk =>
    /\ Consumed >= start + Len(literal)
    /\ SubSeq(stream, Consumed - Len(literal) + 1, Consumed) = OkAll(literal)
    /\ AllChars(Taken)
    /\ sres.val =
         Collapsed(ItemChars(SubSeq(stream, start + 1, Consumed - Len(literal))))

\* read_until("ab") returned the failed partial match "a" and the character
\* that broke it
C15_Witness ==
  /\ ReadUntilOk /\ literal = <<97, 98>> /\ sres.val = <<97, 97>>

\* the number of characters among items
CountChars(items) == Cardinality({i \in 1..Len(items) : items[i].k = "Ok"})

\* the indices of the line feeds among items
LineFeeds(items) == {i \in 1..Len(items) : items[i] = Ok(10)}

\* the items after the last line feed of items
LastLine(items) ==
  LET nl == LineFeeds(items)
      last == IF nl = {} THEN 0 ELSE CHOOSE i \in nl : \A j \in nl : j <= i
  IN  SubSeq(items, last + 1, Len(items))

\* C16: at every point chars_read is the number of characters taken from the
\* stream, line the number of line feeds among them and column the number
\* of characters taken since the last line feed.
C16_CountersExact ==
  LET taken == SubSeq(stream, 1, Consumed)
  IN  /\ chars_read = CountChars(taken)
      /\ line = Cardinality(LineFeeds(taken))
      /\ column = CountChars(LastLine(taken))

\* three characters were taken, the last two of them line feeds, and the
\* next one is peeked
C16_Witness ==
  /\ chars_read = 3 /\ line = 2 /\ column = 0
  /\ sres.op = "peek" /\ peeked # <<>> /\ peeked[1] # <<>>

\* the scanner failure that the decoder error e becomes
SameError(r, e) ==
  \/ e.k = "InvalidBytes" /\ r.k = "InvalidUtf8" /\ r.bytes = e.bytes
  \/ e.k = "IoError" /\ r.k = "IoError"

\* C17: skip_to, read_until and peek return a decoder error as soon as they
\* meet it: InvalidBytes(b) as InvalidUtf8 with bytes b and IoError as
\* IoError, with the location of the scanner at that point (chars is the
\* number of characters taken before the error), and the call takes
\* nothing after the error.
C17_DecoderErrorReturned ==
  (spc = "idle" /\ sres.op # "none") =>
    LET at == IF sres.op = "peek" THEN Consumed + 1 ELSE Consumed
        before == SubSeq(stream, 1, at - 1)
    IN  /\ sres.k \in {"InvalidUtf8", "IoError"} =>
             /\ at >= 1 /\ at <= Len(stream) /\ at > start
             /\ SameError(sres, stream[at])
             /\ sres.location =
                  Location(CountChars(before),
                           CountChars(LastLine(before)) + 1,
                           Cardinality(LineFeeds(before)) + 1)
        /\ AllChars(SubSeq(stream, start + 1, at - 1))
        /\ (sres.op # "peek" /\ ~AllChars(Taken)) =>
             sres.k \in {"InvalidUtf8", "IoError"}

\* invalid bytes met on the second line, after two characters
C17_Witness ==
  /\ SearchDone /\ sres.k = "InvalidUtf8" /\ sres.bytes = <<192>>
  /\ sres.location = Location(2, 1, 2)

\* a step that is a call of peek
PeekStep == spc = "idle" /\ spc' = "idle" /\ sres'.op = "peek"

\* C18: peek() takes nothing: the counters and the number of items taken
\* stay as they are, the character it returns is the next item of the
\* stream, which is the one the next skip_to / read_until takes first, and
\* a peek right after a peek returns the same.
C18_PeekDoesNotConsume ==
  /\ [][PeekStep =>
          /\ UNCHANGED <<line, column, chars_read>>
          /\ Consumed' = Consumed
          /\ sres'.k = "Ok" =>
               (Consumed < Len(stream) /\ stream[Consumed + 1] = Ok(sres'.val[1]))
          /\ sres.op = "peek" => sres' = sres]_vars
  /\ [][(chars_read' # chars_read) =>
          /\ Consumed' = Consumed + 1
          /\ stream[Consumed'].k = "Ok"
          /\ (line' = line + 1) <=> (stream[Consumed'].c = 10)]_vars

\* a line feed was peeked after two characters were taken
C18_Witness ==
  /\ spc = "idle" /\ sres.op = "peek" /\ sres.k = "Ok" /\ sres.val = <<10>>
  /\ chars_read = 2 /\ Consumed = 2

\* skip_to or read_until runs
Searching == spc \in {"skip_to", "read_until"}

\* C29: when skip_to or read_until has failed with InvalidUtf8 the last item
\* taken is the invalid span and all before it were characters, the
\* counters count the characters before the span, and the next call
\* starts with the item after the span.
C29_InvalidSpanSkipped ==
  /\ []((SearchDone /\ sres.k = "InvalidUtf8") =>
          LET before == SubSeq(stream, 1, Consumed - 1)
          IN  /\ Consumed > start /\ peeked = <<>>
              /\ stream[Consumed] = InvalidBytes(sres.bytes)
              /\ AllChars(SubSeq(stream, start + 1, Consumed - 1))
              /\ chars_read = CountChars(before)
              /\ line = Cardinality(LineFeeds(before))
              /\ column = CountChars(LastLine(before)))
  /\ [][(SearchDone /\ sres.k = "InvalidUtf8" /\ spc' # "idle") =>
          start' = Consumed /\ Consumed' = Consumed]_vars
  /\ [][(Searching /\ Consumed = start /\ Consumed' # Consumed) =>
          /\ Consumed' = start + 1
          /\ stream[start + 1].k = "Ok" =>
               /\ chars_read' = chars_read + 1
               /\ (line' = line + 1) <=> (stream[start + 1].c = 10)
               /\ (found' # <<>> \/ spc' = "idle")
                     <=> (stream[start + 1].c = literal[1])]_vars

\* a call took the character after an invalid span that a call before it
\* had met after one character
C29_Witness ==
  /\ Searching /\ start = 2 /\ Consumed = 3 /\ chars_read = 2
  /\ stream[2].k = "InvalidBytes"

CapturedAt(p) ==
  LET upto == SubSeq(stream, 1, p)
  IN  Location(CountChars(upto), CountChars(LastLine(upto)),
               Cardinality(LineFeeds(upto)))

\* cl is the text of the stream from p on and loc was captured at p
CandidateAt(cl, loc, p) ==
  /\ p + Len(cl) - 1 <= Consumed
  /\ AllChars(SubSeq(stream, p, p + Len(cl) - 1))
  /\ ItemChars(SubSeq(stream, p, p + Len(cl) - 1)) = cl
  /\ loc = CapturedAt(p)

\* C31: the location held with a partial match and with closest is the
\* one captured when the first character of that candidate was counted:
\* its chars is the number of characters taken up to and including that
\* character. A candidate that is not longer never replaces closest or
\* its location.
C31_LocationOfFirstChar ==
  /\ []((Searching /\ found # <<>>) =>
          CandidateAt(found, found_location, Consumed - Len(found) + 1))
  /\ []((Searching /\ closest # <<>>) =>
          \E p \in (start + 1)..Consumed :
            CandidateAt(closest, closest_location, p))
  /\ []((SearchDone /\ sres.k = "UnterminatedInput" /\ sres.closest # <<>>) =>
          \E p \in (start + 1)..Consumed :
            /\ CandidateAt(sres.closest[1][1], sres.closest[1][2], p)
            /\ sres.closest[1][2].chars = CountChars(SubSeq(stream, 1, p)))
  /\ [][(Searching /\ spc' = spc /\ closest_location' # closest_location) =>
          Len(closest') > Len(closest)]_vars

\* a call that began after a line feed reported "aa\n" as closest with the
\* location of its first character, the second of the stream
C31_Witness ==
  /\ SearchDone /\ sres.k = "UnterminatedInput"
  /\ start = 1 /\ ItemChars(SubSeq(stream, 1, 1)) = <<10>>
  /\ ItemChars(Taken) = <<97, 97, 10>>
  /\ sres.closest = << <<(<<97, 97, 10>>), Location(2, 1, 1)>> >>

\* C32: every Location that a scanner call returns in an error counts
\* lines from 1: the location of InvalidUtf8 and IoError, and the location
\* paired with closest.
C32_LinesStartAtOne ==
  (spc = "idle" /\ sres.op # "none") =>
    /\ sres.k \in {"InvalidUtf8", "IoError"} => sres.location.lines >= 1
    /\ sres.closest # <<>> => sres.closest[1][2].lines >= 1

\* C35: whenever skip_to or read_until is about to look up the wanted
\* character, found is a proper prefix of the literal, shorter than it: the
\* lookup finds a character and no call ends in the desync panic.
C35_NoDesync ==
  /\ Searching =>
        /\ Len(literal) > 0
        /\ Len(found) < Len(literal)
        /\ found = SubSeq(literal, 1, Len(found))
  /\ SearchDone => sres.k # "Panic"

\* two of the three characters of "aab" are matched, after a partial match
\* that failed
C35_Witness ==
  /\ Searching /\ literal = <<97, 97, 98>>
  /\ found = <<97, 97>> /\ closest # <<>>

\* C34: on the same stream and literal skip_to and read_until end alike:
\* both succeed or both fail in the same way, having taken the same number
\* of items, which fixes chars_read, line and column, and an
\* UnterminatedInput of both has the same expected and closest. The call
\* that ran ended like both.
C34_SameMatching ==
  SearchDone =>
    LET a == RunSkipTo(NewLocals, start + 1, literal)
        b == RunReadUntil(NewLocals, <<>>, start + 1, literal)
    IN  /\ a = b
        /\ sres.k = a.k /\ Consumed = a.at
        /\ sres.expected = a.expected /\ sres.closest = a.closest
        /\ <<chars_read, line, column>> =
             <<CountersAt(a.at).chars_read, CountersAt(a.at).line,
               CountersAt(a.at).column>>

\* read_until failed at the end of a stream of four characters with a
\* closest, after a call of skip_to had taken the first of them
C34_Witness ==
  /\ SearchDone /\ sres.op = "read_until" /\ sres.k = "UnterminatedInput"
  /\ sres.closest # <<>> /\ start = 1 /\ Consumed = 4 /\ line = 1

----------------------------------------------------------------------------
(* Properties of parse *)

\* parse has returned
ParseDone == gpc = "done"

\* the anchor marker is in the input
HasAnchor == Occurs(OkAll(ANCHOR_OPENING_TO_HREF), stream)

\* C19 as stated: over any input without the anchor marker parse fails with
\* NoRows.
C19_NoAnchorNoRows ==
  (ParseDone /\ ~HasAnchor) => pres = NoRows

\* C19: over an input without the anchor marker that the decoder delivers
\* as characters up to its end parse fails with NoRows, and parse never
\* returns Ok with an empty model.
C19_NoAnchorNoRowsDecoded ==
  /\ (ParseDone /\ ~HasAnchor /\ AllChars(stream)) => pres = NoRows
  /\ (ParseDone /\ pres = ParseOk) =>
       (models.watches # <<>> /\ models.videos # {})

\* parse failed with NoRows over the start of an anchor
C19_Witness ==
  /\ ParseDone /\ pres = NoRows
  /\ AllChars(stream) /\ Len(stream) = 8 /\ chars_read = 8

\* the date of the record r is one that chrono parses
WellFormed(r) == datetime_from_str_ok(Collapsed(r.date))

\* C20: over N >= 1 well-formed records followed by characters without the
\* anchor marker parse returns Ok and the model holds exactly N watches, in
\* the order of the records; until parse returns it has a step to take.
C20_AllRecordsInOrder ==
  /\ (ParseDone /\ records # <<>> /\ AllChars(stream)
        /\ ~Occurs(OkAll(ANCHOR_OPENING_TO_HREF),
                   DropFirst(stream, Len(RenderAll(records))))
        /\ \A i \in 1..Len(records) : WellFormed(records[i])) =>
       /\ pres = ParseOk
       /\ Len(models.watches) = Len(records)
       /\ \A i \in 1..Len(records) :
            models.watches[i] = [video |-> get(models.videos, records[i].url),
                                 when |-> Collapsed(records[i].date)]
  /\ gpc \notin {"idle", "done"} => ENABLED NextParse

\* two different records and the start of an anchor were parsed
C20_Witness ==
  /\ ParseDone /\ pres = ParseOk
  /\ Len(records) = 2 /\ records[1].url # records[2].url
  /\ Len(models.watches) = 2
  /\ Len(stream) > Len(RenderAll(records)) + 1

\* the statements of next_data_row after the anchor was matched
InRecord == DOMAIN Steps \cup {"peek", "peeked", "date"}

\* the scanner call that next_data_row waits for has failed, or the date
\* it returned does not parse
FailedInRecord ==
  /\ gpc \in InRecord /\ gpc # "peek" /\ spc = "idle"
  /\ \/ sres.k # "Ok"
     \/ gpc = "date" /\ ~datetime_from_str_ok(sres.val)

RECURSIVE LeadingWellFormed(_)
\* the number of records before the first one whose date does not parse
LeadingWellFormed(rs) ==
  IF rs = <<>> \/ ~WellFormed(Head(rs)) THEN 0
  ELSE 1 + LeadingWellFormed(Tail(rs))

\* C21: a failure of a scanner call or of the date after the anchor of a
\* record was matched makes parse return Err and leaves the model as it
\* was; the watches are those of the records extracted in full, and
\* parser() returns a model only when parse returned Ok.
C21_FailureAbortsParse ==
  /\ [][FailedInRecord =>
          /\ gpc' = "done" /\ pres'.k \in {"Err", "DateParseError"}
          /\ models' = models]_vars
  /\ [](ParseDone =>
          /\ Len(models.watches) = LeadingWellFormed(records)
          /\ (parser.k = "Ok") <=> (pres = ParseOk)
          /\ pres # ParseOk => parser.models = <<>>)

\* read_until met the end of the stream in the second record
C21_Witness ==
  /\ ParseDone /\ pres.k = "Err" /\ pres.e.k = "UnterminatedInput"
  /\ pres.e.op = "read_until" /\ Len(models.watches) = 1
  /\ parser.models = <<>>

\* the items taken from the stream so far
TakenSoFar == SubSeq(stream, 1, Consumed)

\* C22: when the date string of a record was read and does not parse, parse
\* fails with DateParseError that carries the string read and the location
\* of the parser after the line feed; a whole record that is not extracted
\* gives DateParseError, never UnterminatedInput or the end of the rows.
C22_DateParseError ==
  /\ (ParseDone /\ pres.k = "DateParseError") =>
       /\ Len(records) > Len(models.watches)
       /\ LET k == Len(models.watches) + 1
          IN  /\ ~WellFormed(records[k])
              /\ pres.e.val = Collapsed(records[k].date)
              /\ Consumed = Len(RenderAll(SubSeq(records, 1, k)))
              /\ pres.e.location =
                   Location(CountChars(TakenSoFar), 1,
                            Cardinality(LineFeeds(TakenSoFar)) + 1)
  /\ (ParseDone /\ Len(records) > Len(models.watches)) =>
       pres.k = "DateParseError"

\* the date "x\ty" of the second record did not parse
C22_Witness ==
  /\ ParseDone /\ pres.k = "DateParseError"
  /\ pres.e.val = <<120, 32, 121>> /\ Len(models.watches) = 1
  /\ pres.e.location.lines = 3

\* the record that next_data_row is reading, when the input holds it whole
Reading == records[Len(models.watches) + 1]

\* C23: after the first "<br />" of a record the channel is read when the
\* next character is '<', the text up to the next "<br />" is skipped when
\* it is 'W', and nothing is taken otherwise; the channel fields are those
\* of the record or empty, and the date is read from there to the line
\* feed.
C23_PeekBranches ==
  (gpc = "date" /\ Len(records) > Len(models.watches)) =>
    LET whole == Len(RenderAll(SubSeq(records, 1, Len(models.watches) + 1)))
    IN  /\ row.url = Reading.url /\ row.title = Reading.title
        /\ row.channel_url = Reading.channel_url
        /\ row.channel_name = Reading.channel_name
        /\ Reading.kind # "channel" =>
             (row.channel_url = <<>> /\ row.channel_name = <<>>)
        /\ start = whole - Len(Reading.date) - 1
        /\ (spc = "idle" /\ sres.op = "read_until" /\ sres.k = "Ok") =>
             (sres.val = Collapsed(Reading.date) /\ Consumed = whole)

\* the date of a second record is about to be read after "Watched at"
C23_Witness ==
  /\ gpc = "date" /\ spc = "read_until" /\ Consumed = start
  /\ Len(records) = 2 /\ Len(models.watches) = 1
  /\ Reading.kind = "watched_at"

\* the first item of the stream that is a decoder error
FirstError ==
  stream[CHOOSE i \in 1..Len(stream) :
           stream[i].k # "Ok" /\ AllChars(SubSeq(stream, 1, i - 1))]

\* C33: parse returns Ok only when it has taken the whole stream and the
\* decoder delivered nothing but characters; a decoder error after the
\* last of the well-formed records makes parse fail with that error, with
\* every record in the model.
C33_OkOnlyWithoutDecoderError ==
  /\ (ParseDone /\ pres = ParseOk) =>
       (AllChars(stream) /\ Consumed = Len(stream))
  /\ (ParseDone /\ ~AllChars(stream)
        /\ AllChars(Take(stream, Len(RenderAll(records))))
        /\ \A i \in 1..Len(records) : WellFormed(records[i])) =>
       /\ pres.k = "Err" /\ SameError(pres.e, FirstError)
       /\ Len(models.watches) = Len(records)

\* parse failed with InvalidUtf8 on the last item of the stream, after two
\* records that are in the model
C33_Witness ==
  /\ ParseDone /\ pres.k = "Err" /\ pres.e.k = "InvalidUtf8"
  /\ Len(records) = 2 /\ Len(models.watches) = 2
  /\ Consumed = Len(stream) /\ stream[Len(stream) - 1] = Ok(120)

----------------------------------------------------------------------------
(* Properties of the record store, the JSON parser and the cache *)

\* the first folded record with this video URL, with this channel URL
FirstWithVideo(url) ==
  folded[CHOOSE i \in 1..Len(folded) :
           /\ folded[i].url = url
           /\ \A j \in 1..(i - 1) : folded[j].url # url]
FirstWithChannel(url) ==
  folded[CHOOSE i \in 1..Len(folded) :
           /\ folded[i].channel_url = url
           /\ \A j \in 1..(i - 1) : folded[j].channel_url # url]

\* C27: after any sequence of records is folded, the model holds exactly one
\* channel per distinct channel URL and one video per distinct video URL,
\* each with the name, title and channel of the first record that had the
\* URL, and count_watches(Any) is the number of records folded
C27_OnePerUrl ==
  /\ {c.url : c \in models.channels} =
       {folded[i].channel_url : i \in 1..Len(folded)}
  /\ \A c1, c2 \in models.channels : c1.url = c2.url => c1 = c2
  /\ \A c \in models.channels : c.name = FirstWithChannel(c.url).channel_name
  /\ {v.url : v \in models.videos} = {folded[i].url : i \in 1..Len(folded)}
  /\ \A v1, v2 \in models.videos : v1.url = v2.url => v1 = v2
  /\ \A v \in models.videos :
       /\ v.title = FirstWithVideo(v.url).title
       /\ v.channel \in models.channels
       /\ v.channel.url = FirstWithVideo(v.url).channel_url
  /\ count_watches(models) = Len(folded)

\* three records were folded, two of them with one video URL and different
\* titles and channels
C27_Witness ==
  /\ Len(folded) = 3
  /\ folded[1].url = folded[2].url /\ folded[1].title # folded[2].title
  /\ folded[1].channel_url # folded[2].channel_url
  /\ folded[3] = folded[1]
  /\ Cardinality(models.videos) = 1 /\ Cardinality(models.channels) = 2

\* C24: the models loaded from the cache that to_string wrote have the same
\* channels, the same videos with the same channels, and the same watches
\* in the same order as the models written
C24_CacheRoundTrip ==
  loaded # <<>> =>
    /\ loaded[1].k = "Ok"
    /\ loaded[1].models[1].channels = models.channels
    /\ loaded[1].models[1].videos = models.videos
    /\ Len(loaded[1].models[1].watches) = Len(models.watches)
    /\ \A i \in 1..Len(models.watches) :
         loaded[1].models[1].watches[i] = models.watches[i]

\* a cache with two videos of two channels and three watches was loaded
C24_Witness ==
  /\ loaded # <<>>
  /\ Cardinality(models.videos) = 2 /\ Cardinality(models.channels) = 2
  /\ Len(models.watches) = 3
  /\ models.watches[1].video # models.watches[2].video
  /\ cache[1].videos[1].channel # cache[1].videos[2].channel

\* the rows among the first n that are not "Visited YouTube Music"
Kept(n) ==
  SelectSeq(SubSeq(rows, 1, n), LAMBDA r : r.title # VisitedYouTubeMusic)

\* the URL of the first subtitle of a row, "(hidden)" without subtitles
RowChannelUrl(r) ==
  IF r.subtitles = <<>> THEN DEFAULT_CHANNEL ELSE r.subtitles[1].url

\* C25: the rows titled "Visited YouTube Music" add no channel, no video
\* and no watch; every other row adds exactly one watch, in input order;
\* parse returns Ok exactly when the time of every other row is valid
C25_VisitedRowsSkipped ==
  jpc \in {"loop", "done"} =>
    LET kept == Kept(ji - 1)
    IN  /\ Len(models.watches) = Len(kept)
        /\ \A i \in 1..Len(kept) :
             /\ models.watches[i].video.url = kept[i].title_url
             /\ models.watches[i].when = kept[i].time
        /\ {v.url : v \in models.videos} =
             {kept[i].title_url : i \in 1..Len(kept)}
        /\ {c.url : c \in models.channels} =
             {RowChannelUrl(kept[i]) : i \in 1..Len(kept)}
        /\ jpc = "done" =>
             /\ (jres.k = "Ok") <=>
                  \A i \in 1..Len(rows) :
                    \/ rows[i].title = VisitedYouTubeMusic
                    \/ parse_from_rfc3339_ok(rows[i].time)
             /\ jres.k = "Ok" => ji - 1 = Len(rows) /\ jres.models = <<models>>

\* parse returned Ok on three rows, the second of them a "Visited YouTube
\* Music" row with a title URL and a subtitle
C25_Witness ==
  /\ jpc = "done" /\ jres.k = "Ok"
  /\ Len(rows) = 3 /\ rows[2].title = VisitedYouTubeMusic
  /\ rows[2].subtitles # <<>> /\ rows[2].title_url # <<>>
  /\ rows[1].title # VisitedYouTubeMusic /\ rows[3].title # VisitedYouTubeMusic
  /\ Len(models.watches) = 2

\* the default channel
Hidden == [url |-> DEFAULT_CHANNEL, name |-> DEFAULT_CHANNEL]

\* C26: a row without subtitles is attributed to the channel whose name
\* and URL are both "(hidden)"
C26_HiddenChannel ==
  (jpc = "done" /\ jres.k = "Ok") =>
    \A i \in 1..Len(Kept(Len(rows))) :
      Kept(Len(rows))[i].subtitles = <<>> =>
        models.watches[i].video.channel = Hidden

\* C26, amended: a row without subtitles finds or creates the channel with
\* the URL "(hidden)", which all such rows share and whose name is
\* "(hidden)" unless an earlier row named that URL in a subtitle; the row's
\* video is attributed to that channel unless an earlier row had the same
\* video URL, and then the row's watch is of that earlier video
C26_HiddenChannelUnlessSeen ==
  (jpc = "done" /\ jres.k = "Ok") =>
    LET kept == Kept(Len(rows))
    IN  \A i \in 1..Len(kept) :
          kept[i].subtitles = <<>> =>
            /\ \E c \in models.channels : c.url = DEFAULT_CHANNEL
            /\ (\A j \in 1..(i - 1) : kept[j].subtitles = <<>>
                                       \/ kept[j].subtitles[1].url # DEFAULT_CHANNEL)
                 => Hidden \in models.channels
            /\ (\A j \in 1..(i - 1) : kept[j].title_url # kept[i].title_url)
                 => models.watches[i].video.channel =
                      get(models.channels, DEFAULT_CHANNEL)
            /\ \A j \in 1..(i - 1) :
                 kept[j].title_url = kept[i].title_url =>
                   models.watches[i].video = models.watches[j].video

\* parse returned Ok on three rows: one with a subtitle, then two without,
\* the first of these with the video URL of the first row
C26_Witness ==
  /\ jpc = "done" /\ jres.k = "Ok"
  /\ Len(rows) = 3 /\ Len(models.watches) = 3
  /\ rows[1].subtitles # <<>> /\ rows[2].subtitles = <<>> /\ rows[3].subtitles = <<>>
  /\ rows[2].title_url = rows[1].title_url /\ rows[3].title_url # rows[1].title_url
  /\ jrows[2].subtitles = <<>> /\ jrows[3].subtitles # <<>>
  /\ models.watches[2].video.channel # Hidden
  /\ models.watches[3].video.channel = Hidden

\* C36: after any rows were inserted by insert_row or by the JSON parser,
\* the channel of every video is the channel that the channel map holds
\* for its URL and the video of every watch is the video that the video
\* map holds for its URL, so the lookups of from_str find their entity and
\* from_str does not panic.
C36_ReferentialIntegrity ==
  /\ \A v \in models.videos : v.channel \in models.channels
  /\ \A i \in 1..Len(models.watches) : models.watches[i].video \in models.videos
  /\ cache # <<>> =>
       /\ \A i \in 1..Len(cache[1].videos) :
            \E j \in 1..Len(cache[1].channels) :
              cache[1].channels[j].url = cache[1].videos[i].channel
       /\ \A i \in 1..Len(cache[1].watches) :
            \E j \in 1..Len(cache[1].videos) :
              cache[1].videos[j].url = cache[1].watches[i].video
  /\ loaded # <<>> => loaded[1].k = "Ok"

\* three rows of two videos and three channels were inserted, the second
\* a video already known with another channel, and the cache was loaded
C36_Witness ==
  /\ Len(folded) = 3 /\ loaded # <<>>
  /\ folded[2].url = folded[1].url
  /\ folded[2].channel_url # folded[1].channel_url
  /\ Cardinality(models.channels) = 3 /\ Cardinality(models.videos) = 2

\* C38: the JSON parser returns an error and no model when the time of a
\* row that is not skipped does not parse, whatever was folded before that
\* row; it returns Ok exactly when every row that is not skipped was
\* inserted, with the model of those rows, which is empty for an empty
\* array.
C38_AllOrNothing ==
  jpc = "done" =>
    LET bad == {i \in 1..Len(rows) :
                  rows[i].title # VisitedYouTubeMusic
                  /\ ~parse_from_rfc3339_ok(rows[i].time)}
    IN  /\ bad # {} => (jres.k = "Err" /\ jres.models = <<>>)
        /\ bad = {} =>
             /\ jres.k = "Ok" /\ jres.models = <<models>>
             /\ Len(models.watches) = Len(Kept(Len(rows)))
             /\ rows = <<>> => models = NewModels

\* parse returned an error on the third row, after two rows were folded
C38_Witness ==
  /\ jpc = "done" /\ jres.k = "Err" /\ jres.models = <<>>
  /\ Len(rows) = 3 /\ ji = 3 /\ Len(folded) = 2

----------------------------------------------------------------------------
(* Properties of the byte scanner of main.rs *)

\* the bytes from the item p of the stream on
BytesFrom(p) == ItemChars(SubSeq(stream, p + 1, Len(stream)))

\* C37: no call of the byte scanner panics, and skip_to and read_until
\* return UnterminatedInput, with the string sought and the index where the
\* call began, when the string is not in the bytes that were left, also
\* when no byte was left.
C37_UnterminatedNotPanic ==
  /\ mpc # "panic" /\ mres.k # "Panic"
  /\ (mpc = "idle" /\ mres.op \in {"skip_to", "read_until"}
        /\ mres.k = "UnterminatedInput") =>
       /\ Consumed = Len(stream)
       /\ mres.position <= Len(stream)
       /\ AllChars(SubSeq(stream, mres.position + 1, Len(stream)))
       /\ ~Occurs(mres.expected, BytesFrom(mres.position))

====
